---- MODULE Spec2Model ----
(***************************************************************************)
(* Model of the wgpu demo: the Renderable objects (Pentagon, Cube, Char),  *)
(* their prepare/render operations, the instance grid, and the event loop  *)
(* of main.rs.                                                             *)
(*                                                                         *)
(* Numbers.  f32 values that take part in arithmetic are exact rationals   *)
(* <<n, d>> (d > 0, lowest terms); every input is chosen so that the f32   *)
(* computation is exact.  An f32 that is only serialised (elapsed_time) is *)
(* its IEEE-754 bit pattern, a 32 bit natural number.                      *)
(***************************************************************************)
EXTENDS Integers, Sequences, FiniteSets, TLC

VARIABLES
    endian,      \* byte order of the build target: "little" or "big"
    pentagon,    \* the Pentagon struct
    cube,        \* the Cube struct
    char,        \* the Char struct
    buffers,     \* device memory: buffer handle -> [size, contents]
    queue,       \* the write_buffer calls queued so far, in order
    calls,       \* the prepare/render calls made so far, in order
    rpass,       \* the render pass: [open, commands]
    camera0,     \* the Camera the objects were constructed with
    supplied,    \* per object: was prepare ever given Some(camera)
    grid,        \* last result of create_instances: [kind, rows, instances]
    sized,       \* last application of next_copy_buffer_size, as an Option
    control_flow,     \* main.rs: *control_flow as the closure left it
    loop_flow,        \* the control flow the event loop goes on with
    config,           \* main.rs: config.width / config.height
    surface,          \* what the surface was last configured with
    redraw_requested, \* window.request_redraw() pending
    trace,            \* API calls made by the last handler invocation
    last_event,       \* the event the last handler invocation received
    panicked          \* main.rs: the handler panicked (expect)

vars == <<endian, pentagon, cube, char, buffers, queue, calls, rpass,
          camera0, supplied, grid, sized,
          control_flow, loop_flow, config, surface, redraw_requested, trace, last_event,
          panicked>>

objVars  == <<endian, pentagon, cube, char, buffers, queue, calls, rpass,
             camera0, supplied>>
mainVars == <<control_flow, loop_flow, config, surface, redraw_requested, trace,
              last_event, panicked>>

\* Option<T>: None is the empty sequence, Some(x) the sequence <<x>>
None == <<>>
Some(x) == <<x>>
IsSome(o) == o # <<>>
Unwrap(o) == o[1]

----------------------------------------------------------------------------
(* Exact rational arithmetic                                               *)

Abs(x) == IF x < 0 THEN -x ELSE x

RECURSIVE GCD(_, _)
GCD(a, b) == IF b = 0 THEN a ELSE GCD(b, a % b)

Rat(n, d) ==
    LET g == GCD(Abs(n), Abs(d))
        s == IF d < 0 THEN -1 ELSE 1
    IN  <<(s * n) \div g, (s * d) \div g>>

R(n) == <<n, 1>>
RAdd(a, b) == Rat(a[1] * b[2] + b[1] * a[2], a[2] * b[2])
RMul(a, b) == Rat(a[1] * b[1], a[2] * b[2])
RNeg(a) == <<-a[1], a[2]>>
RDiv(a, b) == Rat(a[1] * b[2], a[2] * b[1])

\* integer square root of a perfect square
ISqrt(n) == CHOOSE r \in 0..n : r * r = n
IsSquare(n) == \E r \in 0..n : r * r = n

----------------------------------------------------------------------------
(* Vectors and 4x4 matrices (cgmath).  A matrix is its four columns, as    *)
(* [[f32; 4]; 4] lays it out.                                              *)

Dot(a, b) == a[1] * b[1] + a[2] * b[2] + a[3] * b[3]
Cross(a, b) == <<a[2] * b[3] - a[3] * b[2],
                 a[3] * b[1] - a[1] * b[3],
                 a[1] * b[2] - a[2] * b[1]>>
Sub3(a, b) == <<a[1] - b[1], a[2] - b[2], a[3] - b[3]>>
is_zero(v) == v = <<0, 0, 0>>

\* InnerSpace::normalize of an integer vector: v / sqrt(v.v), kept exact as
\* the primitive direction of v and the squared length of that direction.
\* The zero vector has no direction (its components become NaN): len2 = 0.
normalize(v) ==
    LET g == GCD(GCD(Abs(v[1]), Abs(v[2])), Abs(v[3]))
        d == IF g = 0 THEN v ELSE <<v[1] \div g, v[2] \div g, v[3] \div g>>
    IN  [dir |-> d, len2 |-> Dot(d, d)]

unit_z == [dir |-> <<0, 0, 1>>, len2 |-> 1]

\* the components of a unit vector whose length is rational
UnitComp(u, i) == Rat(u.dir[i], ISqrt(u.len2))

Identity4 == << <<R(1), R(0), R(0), R(0)>>,
                <<R(0), R(1), R(0), R(0)>>,
                <<R(0), R(0), R(1), R(0)>>,
                <<R(0), R(0), R(0), R(1)>> >>

MatMul(A, B) ==
    [c \in 1..4 |->
        [r \in 1..4 |->
            RAdd(RAdd(RMul(A[1][r], B[c][1]), RMul(A[2][r], B[c][2])),
                 RAdd(RMul(A[3][r], B[c][3]), RMul(A[4][r], B[c][4])))]]

\* the 16 f32 words of a matrix in memory order
Flatten(M) == M[1] \o M[2] \o M[3] \o M[4]

----------------------------------------------------------------------------
(* Camera and CameraUniform (crate root).  Camera holds eye, target, up,   *)
(* aspect, fovy, znear, zfar; CameraUniform holds view_proj, one 4x4 f32   *)
(* matrix.                                                                 *)

\* cot(fovy / 2) for the field-of-view angles (in degrees) that make it exact
CotHalf(fovy) == CASE fovy = 90 -> R(1)

UVec(u) == <<UnitComp(u, 1), UnitComp(u, 2), UnitComp(u, 3)>>
RDot3(a, v) == RAdd(RAdd(RMul(a[1], R(v[1])), RMul(a[2], R(v[2]))),
                    RMul(a[3], R(v[3])))
RCross(a, b) == <<RAdd(RMul(a[2], b[3]), RNeg(RMul(a[3], b[2]))),
                  RAdd(RMul(a[3], b[1]), RNeg(RMul(a[1], b[3]))),
                  RAdd(RMul(a[1], b[2]), RNeg(RMul(a[2], b[1])))>>

\* Matrix4::look_at_rh(eye, target, up)
look_at_rh(eye, target, up) ==
    LET fu == normalize(Sub3(target, eye))
        f  == UVec(fu)
        s  == UVec(normalize(Cross(fu.dir, up)))
        u  == RCross(s, f)
    IN  << <<s[1], u[1], RNeg(f[1]), R(0)>>,
           <<s[2], u[2], RNeg(f[2]), R(0)>>,
           <<s[3], u[3], RNeg(f[3]), R(0)>>,
           <<RNeg(RDot3(s, eye)), RNeg(RDot3(u, eye)), RDot3(f, eye), R(1)>> >>

\* cgmath::perspective(Deg(fovy), aspect, znear, zfar)
perspective(fovy, aspect, znear, zfar) ==
    LET f == CotHalf(fovy)
    IN  << <<RDiv(f, aspect), R(0), R(0), R(0)>>,
           <<R(0), f, R(0), R(0)>>,
           <<R(0), R(0), Rat(zfar + znear, znear - zfar), R(-1)>>,
           <<R(0), R(0), Rat(2 * zfar * znear, znear - zfar), R(0)>> >>

\* the correction from the [-1, 1] depth range to the [0, 1] depth range
OPENGL_TO_WGPU_MATRIX ==
    << <<R(1), R(0), R(0), R(0)>>,
       <<R(0), R(1), R(0), R(0)>>,
       <<R(0), R(0), Rat(1, 2), R(0)>>,
       <<R(0), R(0), Rat(1, 2), R(1)>> >>

ViewProjection(camera) ==
    MatMul(OPENGL_TO_WGPU_MATRIX,
           MatMul(perspective(camera.fovy, camera.aspect, camera.znear, camera.zfar),
                  look_at_rh(camera.eye, camera.target, camera.up)))

\* mem::size_of::<CameraUniform>() and mem::size_of::<InstanceRaw>(): 16 f32
size_of_f32 == 4
size_of_CameraUniform == 16 * size_of_f32
size_of_InstanceRaw == 16 * size_of_f32

\* The cameras the callers supply.  The second looks along the same line of
\* sight as the first, at a nearer target.
MkCamera(eye, target) ==
    [eye |-> eye, target |-> target, up |-> <<0, 1, 0>>,
     aspect |-> R(1), fovy |-> 90, znear |-> 1, zfar |-> 3]

Cameras == { MkCamera(<<0, 0, 2>>, <<0, 0, 0>>),
             MkCamera(<<0, 0, 2>>, <<0, 0, 1>>),
             MkCamera(<<2, 0, 0>>, <<0, 0, 0>>) }

\* Camera::build_view_projection_matrix: OPENGL_TO_WGPU_MATRIX * proj * view,
\* evaluated once for each camera
ViewProjectionOf == [c \in Cameras |-> ViewProjection(c)]
build_view_projection_matrix(camera) == ViewProjectionOf[camera]

CameraUniform_new == [view_proj |-> Identity4]

update_view_proj(self, camera) ==
    [self EXCEPT !.view_proj = build_view_projection_matrix(camera)]

----------------------------------------------------------------------------
(* f32::to_ne_bytes.  An f32 is its IEEE-754 bit pattern.                  *)

Byte(bits, i) == (bits \div (256 ^ i)) % 256

to_le_bytes(bits) == <<Byte(bits, 0), Byte(bits, 1), Byte(bits, 2), Byte(bits, 3)>>
to_be_bytes(bits) == <<Byte(bits, 3), Byte(bits, 2), Byte(bits, 1), Byte(bits, 0)>>
to_ne_bytes(bits, e) == IF e = "little" THEN to_le_bytes(bits) ELSE to_be_bytes(bits)

\* 0.0 and 1.0 seconds
Times == {0, 1065353216}

----------------------------------------------------------------------------
(* Instance, InstanceRaw and the instance grid                             *)

\* Quaternion::from_axis_angle(axis, Deg(deg)), kept as its axis and angle
from_axis_angle(axis, deg) == [axis |-> axis, deg |-> deg]

\* Instance::to_raw: from_translation(position) * Matrix4::from(rotation),
\* kept as its two factors
to_raw(instance) ==
    [model |-> [translation |-> instance.position, rotation |-> instance.rotation]]

NUM_INSTANCES_PER_ROW == 10

\* NUM_INSTANCES_PER_ROW as f32 * 0.5 in x and z
INSTANCE_DISPLACEMENT ==
    <<NUM_INSTANCES_PER_ROW \div 2, 0, NUM_INSTANCES_PER_ROW \div 2>>

\* the rotation both create_instances give an instance at `position`
InstanceRotation(position) ==
    IF is_zero(position)
    THEN from_axis_angle(unit_z, 0)
    ELSE from_axis_angle(normalize(position), 45)

\* the closure of Pentagon::create_instances on the plane y = 0 and without
\* the is_zero branch
Pentagon_instance_unguarded(i) ==
    LET z == i \div NUM_INSTANCES_PER_ROW
        x == i % NUM_INSTANCES_PER_ROW
        position == Sub3(<<x, 0, z>>, INSTANCE_DISPLACEMENT)
    IN  [position |-> position,
         rotation |-> from_axis_angle(normalize(position), 45)]

\* the closure of Pentagon::create_instances with x as the outer index
Pentagon_instance_xz(i) ==
    LET x == i \div NUM_INSTANCES_PER_ROW
        z == i % NUM_INSTANCES_PER_ROW
        position == Sub3(<<x, 2, z>>, INSTANCE_DISPLACEMENT)
    IN  [position |-> position, rotation |-> InstanceRotation(position)]

\* the i-th element (from 0) of the flat_map: z is the outer index, x the inner
Pentagon_instance(i) ==
    LET z == i \div NUM_INSTANCES_PER_ROW
        x == i % NUM_INSTANCES_PER_ROW
        position == Sub3(<<x, 2, z>>, INSTANCE_DISPLACEMENT)
    IN  [position |-> position, rotation |-> InstanceRotation(position)]

Pentagon_create_instances(num_row_instances) ==
    [i \in 1..(num_row_instances * NUM_INSTANCES_PER_ROW) |-> Pentagon_instance(i - 1)]

\* the closure of Cube::create_instances on the plane y = 0, where the
\* displaced position can be the zero vector
Cube_instance_y0(i) ==
    LET z == i \div NUM_INSTANCES_PER_ROW
        x == i % NUM_INSTANCES_PER_ROW
        position == Sub3(<<x, 0, z>>, INSTANCE_DISPLACEMENT)
    IN  [position |-> position, rotation |-> InstanceRotation(position)]

Cube_instance(i) ==
    LET z == i \div NUM_INSTANCES_PER_ROW
        x == i % NUM_INSTANCES_PER_ROW
        position == Sub3(<<x * 3, -2, z * 3>>, INSTANCE_DISPLACEMENT)
    IN  [position |-> position, rotation |-> InstanceRotation(position)]

Cube_create_instances(num_row_instances) ==
    [i \in 1..(num_row_instances * NUM_INSTANCES_PER_ROW) |-> Cube_instance(i - 1)]

----------------------------------------------------------------------------
(* GPU resources.  A handle is <<owner, field>>; a buffer is its size in   *)
(* bytes and its contents.                                                 *)

Buffer(size, contents) == [size |-> size, contents |-> contents]

\* device.create_buffer_init for a slice of `n` elements of `elem` bytes
BufferInit(contents, elem) == Buffer(Len(contents) * elem, contents)

size_of_ModelVertex == 5 * size_of_f32
size_of_u32 == size_of_f32

\* a Mesh and the two buffers it owns
MeshOf(owner, k, name, vertices, indices) ==
    [mesh |-> [name |-> name,
               vertex_buffer |-> <<owner, "vertex_buffer", k>>,
               index_buffer |-> <<owner, "index_buffer", k>>,
               num_elements |-> Len(indices),
               materials |-> 1],
     mem  |-> (<<owner, "vertex_buffer", k>> :> BufferInit(vertices, size_of_ModelVertex))
              @@ (<<owner, "index_buffer", k>> :> BufferInit(indices, size_of_u32))]

\* Pentagon::prepare_model that takes num_elements from the vertices
Pentagon_prepare_model_vertices ==
    LET vertices == <<"A", "B", "C", "D", "E">>
        indices  == <<0, 1, 4, 1, 2, 4, 2, 3, 4>>
        m == MeshOf("Pentagon", 1, "pentagon", vertices, indices)
    IN  [model |-> [meshes |-> <<[m.mesh EXCEPT !.num_elements = Len(vertices)]>>,
                    materials |-> <<"happy-three.png">>],
         mem   |-> m.mem]

\* Pentagon::prepare_model: five vertices A..E, nine indices
Pentagon_prepare_model ==
    LET vertices == <<"A", "B", "C", "D", "E">>
        indices  == <<0, 1, 4, 1, 2, 4, 2, 3, 4>>
        m == MeshOf("Pentagon", 1, "pentagon", vertices, indices)
    IN  [model |-> [meshes |-> <<m.mesh>>, materials |-> <<"happy-three.png">>],
         mem   |-> m.mem]

\* Char::prepare_model: the quad A..D, six indices
Char_prepare_model ==
    LET vertices == <<"A", "B", "C", "D">>
        indices  == <<0, 1, 3, 1, 2, 3>>
        m == MeshOf("Char", 1, "char", vertices, indices)
    IN  [model |-> [meshes |-> <<m.mesh>>, materials |-> <<"Char">>],
         mem   |-> m.mem]

\* resources::load_model("cube.obj"): the file decides the number of meshes;
\* each mesh here is one triangle
RECURSIVE load_model(_)
load_model(n_meshes) ==
    IF n_meshes = 0
    THEN [model |-> [meshes |-> <<>>, materials |-> <<"cube-diffuse.jpg">>],
          mem   |-> <<>>]
    ELSE LET rest == load_model(n_meshes - 1)
             m == MeshOf("Cube", n_meshes, "cube", <<"A", "B", "C">>, <<0, 1, 2>>)
         IN  [model |-> [rest.model EXCEPT !.meshes = Append(@, m.mesh)],
              mem   |-> m.mem @@ rest.mem]

----------------------------------------------------------------------------
(* Construction                                                            *)

\* Pentagon::new, from `let diffuse_bind_group` on: the bind groups, the buffers
\* (create_buffer_init) and the struct
Pentagon_assemble(camera_uniform, instances, loaded) ==
    LET camera_raw   == Flatten(camera_uniform.view_proj)
        start_time   == <<0, 0, 0, 0>>
        instance_raw == [i \in 1..Len(instances) |-> to_raw(instances[i])]
    IN  [self |-> [camera_uniform          |-> camera_uniform,
                   render_pipeline         |-> <<"Pentagon", "render_pipeline">>,
                   diffuse_bind_group      |-> <<"Pentagon", "diffuse_bind_group">>,
                   camera_bind_group       |-> <<"Pentagon", "camera_bind_group">>,
                   camera_buffer           |-> <<"Pentagon", "camera_buffer">>,
                   elapsed_time_buffer     |-> <<"Pentagon", "elapsed_time_buffer">>,
                   elapsed_time_bind_group |-> <<"Pentagon", "elapsed_time_bind_group">>,
                   instances               |-> instances,
                   instance_buffer         |-> <<"Pentagon", "instance_buffer">>,
                   model                   |-> loaded.model],
         mem  |-> (<<"Pentagon", "camera_buffer">>
                       :> Buffer(size_of_CameraUniform, camera_raw))
                  @@ (<<"Pentagon", "elapsed_time_buffer">>
                       :> BufferInit(start_time, 1))
                  @@ (<<"Pentagon", "instance_buffer">>
                       :> BufferInit(instance_raw, size_of_InstanceRaw))
                  @@ loaded.mem]

\* Pentagon::new without the update_view_proj call before the buffer is made
Pentagon_new_identity(cam) ==
    LET camera_uniform0 == CameraUniform_new
        loaded          == Pentagon_prepare_model
        instances       == Pentagon_create_instances(10)
    IN  Pentagon_assemble(camera_uniform0, instances, loaded)

\* Pentagon::new(device, shader, swapchain_format, camera, queue)
Pentagon_new(cam) ==
    LET camera_uniform0 == CameraUniform_new
        loaded          == Pentagon_prepare_model
        camera_uniform  == update_view_proj(camera_uniform0, cam)
        instances       == Pentagon_create_instances(10)
    IN  Pentagon_assemble(camera_uniform, instances, loaded)

\* Cube::new, from `let diffuse_bind_group` on: the bind groups, the buffers
\* (create_buffer_init) and the struct
Cube_assemble(camera_uniform, instances, loaded) ==
    LET camera_raw   == Flatten(camera_uniform.view_proj)
        start_time   == <<0, 0, 0, 0>>
        instance_raw == [i \in 1..Len(instances) |-> to_raw(instances[i])]
    IN  [self |-> [camera_uniform          |-> camera_uniform,
                   render_pipeline         |-> <<"Cube", "render_pipeline">>,
                   diffuse_bind_group      |-> <<"Cube", "diffuse_bind_group">>,
                   camera_bind_group       |-> <<"Cube", "camera_bind_group">>,
                   camera_buffer           |-> <<"Cube", "camera_buffer">>,
                   elapsed_time_buffer     |-> <<"Cube", "elapsed_time_buffer">>,
                   elapsed_time_bind_group |-> <<"Cube", "elapsed_time_bind_group">>,
                   instances               |-> instances,
                   instance_buffer         |-> <<"Cube", "instance_buffer">>,
                   model                   |-> loaded.model],
         mem  |-> (<<"Cube", "camera_buffer">>
                       :> Buffer(size_of_CameraUniform, camera_raw))
                  @@ (<<"Cube", "elapsed_time_buffer">>
                       :> BufferInit(start_time, 1))
                  @@ (<<"Cube", "instance_buffer">>
                       :> BufferInit(instance_raw, size_of_InstanceRaw))
                  @@ loaded.mem]

\* Cube::new with a grid of nine rows
Cube_new_nine_rows(cam, n_meshes) ==
    LET camera_uniform0 == CameraUniform_new
        loaded          == load_model(n_meshes)
        camera_uniform  == update_view_proj(camera_uniform0, cam)
        instances       == Cube_create_instances(9)
    IN  Cube_assemble(camera_uniform, instances, loaded)

\* Cube::new(device, shader, swapchain_format, camera, queue)
Cube_new(cam, n_meshes) ==
    LET camera_uniform0 == CameraUniform_new
        loaded          == load_model(n_meshes)
        camera_uniform  == update_view_proj(camera_uniform0, cam)
        instances       == Cube_create_instances(10)
    IN  Cube_assemble(camera_uniform, instances, loaded)

\* Char::new
Char_new ==
    LET prepared == Char_prepare_model
    IN  [self |-> [model              |-> prepared.model,
                   render_pipeline    |-> <<"Char", "render_pipeline">>,
                   diffuse_bind_group |-> <<"Char", "diffuse_bind_group">>],
         mem  |-> prepared.mem]

----------------------------------------------------------------------------
(* The queue.  queue.write_buffer(buffer, offset, data) is logged in       *)
(* `queue` and applied to `buffers`, which holds what every command        *)
(* submitted after the write observes.                                     *)

Write(buffer, offset, data, size) ==
    [buffer |-> buffer, offset |-> offset, data |-> data, size |-> size]

\* the contents of a buffer after a write at offset 0
WriteBuffer(mem, w) ==
    [mem EXCEPT ![w.buffer].contents =
        w.data \o SubSeq(@, Len(w.data) + 1, Len(@))]

RECURSIVE WriteAll(_, _)
WriteAll(mem, ws) ==
    IF ws = <<>> THEN mem ELSE WriteAll(WriteBuffer(mem, Head(ws)), Tail(ws))

\* slice::from_raw_parts(self.camera_uniform.view_proj.as_ptr() as *const u8,
\*                       mem::size_of::<CameraUniform>())
camera_raw_of(camera_uniform) == Flatten(camera_uniform.view_proj)

----------------------------------------------------------------------------
(* Renderable::prepare.  Each gives the struct after the call and the      *)
(* write_buffer calls it makes, in order.                                  *)

\* Pentagon::prepare with to_be_bytes in place of to_ne_bytes
Pentagon_prepare_be(self, cam, elapsed_time, e) ==
    LET self1 == IF IsSome(cam)
                 THEN [self EXCEPT !.camera_uniform = update_view_proj(@, Unwrap(cam))]
                 ELSE self
        w_camera == IF IsSome(cam)
                    THEN <<Write(self1.camera_buffer, 0,
                                 camera_raw_of(self1.camera_uniform),
                                 size_of_CameraUniform)>>
                    ELSE <<>>
        bytes == to_be_bytes(elapsed_time)
        w_time == <<Write(self1.elapsed_time_buffer, 0, bytes, Len(bytes))>>
    IN  [self |-> self1, writes |-> w_camera \o w_time]

\* Pentagon::prepare that uploads the elapsed time only along with a camera
Pentagon_prepare_time_with_camera(self, cam, elapsed_time, e) ==
    LET self1 == IF IsSome(cam)
                 THEN [self EXCEPT !.camera_uniform = update_view_proj(@, Unwrap(cam))]
                 ELSE self
        bytes == to_ne_bytes(elapsed_time, e)
        w_both == IF IsSome(cam)
                  THEN <<Write(self1.camera_buffer, 0,
                               camera_raw_of(self1.camera_uniform),
                               size_of_CameraUniform),
                         Write(self1.elapsed_time_buffer, 0, bytes, Len(bytes))>>
                  ELSE <<>>
    IN  [self |-> self1, writes |-> w_both]

\* Pentagon::prepare that also uploads the instance data again
Pentagon_prepare_instances(self, cam, elapsed_time, e) ==
    LET self1 == IF IsSome(cam)
                 THEN [self EXCEPT !.camera_uniform = update_view_proj(@, Unwrap(cam))]
                 ELSE self
        w_camera == IF IsSome(cam)
                    THEN <<Write(self1.camera_buffer, 0,
                                 camera_raw_of(self1.camera_uniform),
                                 size_of_CameraUniform)>>
                    ELSE <<>>
        bytes == to_ne_bytes(elapsed_time, e)
        w_time == <<Write(self1.elapsed_time_buffer, 0, bytes, Len(bytes))>>
        w_inst == <<Write(self1.instance_buffer, 0, <<>>, 0)>>
    IN  [self |-> self1, writes |-> w_camera \o w_time \o w_inst]

\* impl Renderable for Pentagon: prepare(&mut self, queue, camera, elapsed_time)
Pentagon_prepare(self, cam, elapsed_time, e) ==
    LET self1 == IF IsSome(cam)
                 THEN [self EXCEPT !.camera_uniform = update_view_proj(@, Unwrap(cam))]
                 ELSE self
        w_camera == IF IsSome(cam)
                    THEN <<Write(self1.camera_buffer, 0,
                                 camera_raw_of(self1.camera_uniform),
                                 size_of_CameraUniform)>>
                    ELSE <<>>
        bytes == to_ne_bytes(elapsed_time, e)
        w_time == <<Write(self1.elapsed_time_buffer, 0, bytes, Len(bytes))>>
    IN  [self |-> self1, writes |-> w_camera \o w_time]

\* Cube::prepare that takes camera_raw before update_view_proj has run
Cube_prepare_stale(self, cam, elapsed_time, e) ==
    LET self1 == IF IsSome(cam)
                 THEN [self EXCEPT !.camera_uniform = update_view_proj(@, Unwrap(cam))]
                 ELSE self
        w_camera == IF IsSome(cam)
                    THEN <<Write(self1.camera_buffer, 0,
                                 camera_raw_of(self.camera_uniform),
                                 size_of_CameraUniform)>>
                    ELSE <<>>
        bytes == to_ne_bytes(elapsed_time, e)
        w_time == <<Write(self1.elapsed_time_buffer, 0, bytes, Len(bytes))>>
    IN  [self |-> self1, writes |-> w_camera \o w_time]

\* Cube::prepare that updates camera_uniform and leaves the buffer alone
Cube_prepare_unwritten(self, cam, elapsed_time, e) ==
    LET self1 == IF IsSome(cam)
                 THEN [self EXCEPT !.camera_uniform = update_view_proj(@, Unwrap(cam))]
                 ELSE self
        bytes == to_ne_bytes(elapsed_time, e)
        w_time == <<Write(self1.elapsed_time_buffer, 0, bytes, Len(bytes))>>
    IN  [self |-> self1, writes |-> w_time]

\* impl Renderable for Cube: prepare(&mut self, queue, camera, elapsed_time)
Cube_prepare(self, cam, elapsed_time, e) ==
    LET self1 == IF IsSome(cam)
                 THEN [self EXCEPT !.camera_uniform = update_view_proj(@, Unwrap(cam))]
                 ELSE self
        w_camera == IF IsSome(cam)
                    THEN <<Write(self1.camera_buffer, 0,
                                 camera_raw_of(self1.camera_uniform),
                                 size_of_CameraUniform)>>
                    ELSE <<>>
        bytes == to_ne_bytes(elapsed_time, e)
        w_time == <<Write(self1.elapsed_time_buffer, 0, bytes, Len(bytes))>>
    IN  [self |-> self1, writes |-> w_camera \o w_time]

\* Char::prepare that uploads the elapsed time to the start of its index data
Char_prepare_time(self, cam, elapsed_time, e) ==
    LET bytes == to_ne_bytes(elapsed_time, e)
    IN  [self |-> self,
         writes |-> <<Write(self.model.meshes[1].index_buffer, 0, bytes, Len(bytes))>>]

\* impl Renderable for Char: prepare has an empty body
Char_prepare(self, cam, elapsed_time, e) ==
    [self |-> self, writes |-> <<>>]

----------------------------------------------------------------------------
(* Renderable::render.  Each gives the commands it records in the render   *)
(* pass, in order.  A command is [op, slot, res, args]: `slot` is the bind  *)
(* group index or vertex buffer slot, `res` the resource bound.            *)

Cmd(op, slot, res, args) == [op |-> op, slot |-> slot, res |-> res, args |-> args]

set_pipeline(p)             == Cmd("set_pipeline", 0, p, <<>>)
set_bind_group(i, g)        == Cmd("set_bind_group", i, g, <<>>)
set_vertex_buffer(slot, b)  == Cmd("set_vertex_buffer", slot, b, <<>>)
set_index_buffer(b, format) == Cmd("set_index_buffer", 0, b, format)
\* draw_indexed(indices: lo..hi, base_vertex, instances: ilo..ihi)
draw_indexed(lo, hi, base_vertex, ilo, ihi) ==
    Cmd("draw_indexed", 0, <<>>,
        [indices |-> <<lo, hi>>, base_vertex |-> base_vertex, instances |-> <<ilo, ihi>>])

\* the body of `for mesh in &self.model.meshes` of Pentagon and Cube
RECURSIVE InstancedMeshCommands(_, _)
InstancedMeshCommands(meshes, n_instances) ==
    IF meshes = <<>> THEN <<>>
    ELSE LET mesh == Head(meshes)
         IN  <<set_vertex_buffer(0, mesh.vertex_buffer),
               set_index_buffer(mesh.index_buffer, "Uint32"),
               draw_indexed(0, mesh.num_elements, 0, 0, n_instances)>>
             \o InstancedMeshCommands(Tail(meshes), n_instances)

\* the same loop with the instance range 0..1
RECURSIVE SingleMeshCommands(_)
SingleMeshCommands(meshes) ==
    IF meshes = <<>> THEN <<>>
    ELSE LET mesh == Head(meshes)
         IN  <<set_vertex_buffer(0, mesh.vertex_buffer),
               set_index_buffer(mesh.index_buffer, "Uint32"),
               draw_indexed(0, mesh.num_elements, 0, 0, 1)>>
             \o SingleMeshCommands(Tail(meshes))

\* Pentagon::render that draws the instance range 0..1
Pentagon_render_one(self) ==
    <<set_pipeline(self.render_pipeline),
      set_bind_group(0, self.diffuse_bind_group),
      set_bind_group(1, self.camera_bind_group),
      set_bind_group(2, self.elapsed_time_bind_group),
      set_vertex_buffer(1, self.instance_buffer)>>
    \o SingleMeshCommands(self.model.meshes)

\* impl Renderable for Pentagon: render(&self, render_pass)
Pentagon_render(self) ==
    <<set_pipeline(self.render_pipeline),
      set_bind_group(0, self.diffuse_bind_group),
      set_bind_group(1, self.camera_bind_group),
      set_bind_group(2, self.elapsed_time_bind_group),
      set_vertex_buffer(1, self.instance_buffer)>>
    \o InstancedMeshCommands(self.model.meshes, Len(self.instances))

\* Cube::render with the camera and elapsed-time bind groups exchanged
Cube_render_swapped(self) ==
    <<set_pipeline(self.render_pipeline),
      set_bind_group(0, self.diffuse_bind_group),
      set_bind_group(2, self.camera_bind_group),
      set_bind_group(1, self.elapsed_time_bind_group),
      set_vertex_buffer(1, self.instance_buffer)>>
    \o InstancedMeshCommands(self.model.meshes, Len(self.instances))

\* impl Renderable for Cube: render(&self, render_pass)
Cube_render(self) ==
    <<set_pipeline(self.render_pipeline),
      set_bind_group(0, self.diffuse_bind_group),
      set_bind_group(1, self.camera_bind_group),
      set_bind_group(2, self.elapsed_time_bind_group),
      set_vertex_buffer(1, self.instance_buffer)>>
    \o InstancedMeshCommands(self.model.meshes, Len(self.instances))

\* impl Renderable for Char: render(&self, render_pass)
Char_render(self) ==
    <<set_pipeline(self.render_pipeline),
      set_bind_group(0, self.diffuse_bind_group)>>
    \o SingleMeshCommands(self.model.meshes)

----------------------------------------------------------------------------
(* Bounds                                                                  *)

MaxCalls  == 2    \* prepare (or render) calls made on the objects
MaxMeshes == 2    \* meshes in cube.obj
MaxRows   == 12   \* num_row_instances given to create_instances
MaxDim    == 2    \* widths and heights of the window
MaxFrameCalls == 3 \* prepare and render calls made over the frames

CameraArgs == {None} \cup {Some(c) : c \in Cameras}

\* a call of prepare, with the positions of its writes in the queue
PrepareCall(kind, cam, elapsed_time, writes) ==
    [fn |-> "prepare", self |-> kind, camera |-> cam,
     elapsed_time |-> elapsed_time,
     first |-> Len(queue) + 1, last |-> Len(queue) + Len(writes)]

----------------------------------------------------------------------------
(* Actions on the objects                                                  *)

InitObjects ==
    \E cam \in Cameras, e \in {"little", "big"}, n \in 0..MaxMeshes :
        LET p  == Pentagon_new(cam)
            c  == Cube_new(cam, n)
            ch == Char_new
        IN  /\ endian = e
            /\ camera0 = cam
            /\ pentagon = p.self
            /\ cube = c.self
            /\ char = ch.self
            /\ buffers = p.mem @@ c.mem @@ ch.mem
            /\ queue = <<>>
            /\ calls = <<>>
            /\ rpass = [open |-> FALSE, commands |-> <<>>]
            /\ supplied = [k \in {"Pentagon", "Cube"} |-> FALSE]

PentagonPrepare ==
    \E cam \in CameraArgs, t \in Times :
        LET r == Pentagon_prepare(pentagon, cam, t, endian)
        IN  /\ Len(calls) < MaxCalls
            /\ pentagon' = r.self
            /\ queue' = queue \o r.writes
            /\ buffers' = WriteAll(buffers, r.writes)
            /\ calls' = Append(calls, PrepareCall("Pentagon", cam, t, r.writes))
            /\ supplied' = [supplied EXCEPT !["Pentagon"] = @ \/ IsSome(cam)]
            /\ UNCHANGED <<endian, cube, char, rpass, camera0>>

CubePrepare ==
    \E cam \in CameraArgs, t \in Times :
        LET r == Cube_prepare(cube, cam, t, endian)
        IN  /\ Len(calls) < MaxCalls
            /\ cube' = r.self
            /\ queue' = queue \o r.writes
            /\ buffers' = WriteAll(buffers, r.writes)
            /\ calls' = Append(calls, PrepareCall("Cube", cam, t, r.writes))
            /\ supplied' = [supplied EXCEPT !["Cube"] = @ \/ IsSome(cam)]
            /\ UNCHANGED <<endian, pentagon, char, rpass, camera0>>

CharPrepare ==
    \E cam \in CameraArgs, t \in Times :
        LET r == Char_prepare(char, cam, t, endian)
        IN  /\ Len(calls) < MaxCalls
            /\ char' = r.self
            /\ queue' = queue \o r.writes
            /\ buffers' = WriteAll(buffers, r.writes)
            /\ calls' = Append(calls, PrepareCall("Char", cam, t, r.writes))
            /\ UNCHANGED <<endian, pentagon, cube, rpass, camera0, supplied>>

\* a call of render, with the positions of its commands in the pass
RenderCall(kind, commands) ==
    [fn |-> "render", self |-> kind,
     first |-> Len(rpass.commands) + 1,
     last |-> Len(rpass.commands) + Len(commands)]

\* encoder.begin_render_pass
BeginRenderPass ==
    /\ ~rpass.open
    /\ rpass' = [open |-> TRUE, commands |-> <<>>]
    /\ calls' = <<>>
    /\ UNCHANGED <<endian, pentagon, cube, char, buffers, queue, camera0, supplied>>

\* the render pass is dropped at the end of its block
EndRenderPass ==
    /\ rpass.open
    /\ rpass' = [rpass EXCEPT !.open = FALSE]
    /\ UNCHANGED <<endian, pentagon, cube, char, buffers, queue, calls, camera0, supplied>>

Record(kind, commands) ==
    /\ rpass.open
    /\ Len(calls) < MaxCalls
    /\ rpass' = [rpass EXCEPT !.commands = @ \o commands]
    /\ calls' = Append(calls, RenderCall(kind, commands))
    /\ UNCHANGED <<endian, pentagon, cube, char, buffers, queue, camera0, supplied>>

PentagonRender == Record("Pentagon", Pentagon_render(pentagon))
CubeRender     == Record("Cube", Cube_render(cube))
CharRender     == Record("Char", Char_render(char))

\* an event given to the closure of main.rs
Event(kind, payload) == [kind |-> kind, payload |-> payload]

\* the variables of the other parts, at rest
GridIdle == grid = [kind |-> "None", rows |-> 0, instances |-> <<>>]
SizeIdle == sized = None
MainIdle ==
    /\ control_flow = "Poll"
    /\ loop_flow = "Poll"
    /\ config = [width |-> 0, height |-> 0]
    /\ surface = [width |-> 0, height |-> 0]
    /\ redraw_requested = FALSE
    /\ trace = <<>>
    /\ last_event = Event("None", <<>>)
    /\ panicked = FALSE

Init == InitObjects /\ GridIdle /\ SizeIdle /\ MainIdle

Next ==
    \/ PentagonPrepare /\ UNCHANGED <<grid, sized, mainVars>>
    \/ CubePrepare /\ UNCHANGED <<grid, sized, mainVars>>
    \/ CharPrepare /\ UNCHANGED <<grid, sized, mainVars>>

Spec == Init /\ [][Next]_vars

----------------------------------------------------------------------------
(* Properties of prepare                                                   *)

Instanced == {"Pentagon", "Cube"}

StructOf(kind) == IF kind = "Pentagon" THEN pentagon ELSE cube

\* the write_buffer calls made by call c
CallWrites(c) == SubSeq(queue, c.first, c.last)

PrepareCalls(kinds) ==
    {i \in DOMAIN calls : calls[i].fn = "prepare" /\ calls[i].self \in kinds}

\* the f32 bit pattern four bytes encode in the byte order e
FromNeBytes(b, e) ==
    IF e = "little"
    THEN b[1] + 256 * b[2] + 65536 * b[3] + 16777216 * b[4]
    ELSE b[4] + 256 * b[3] + 65536 * b[2] + 16777216 * b[1]

\* C1: prepare(queue, None, t) on a Pentagon or Cube queues no write to the
\* camera-uniform buffer and exactly one write to the elapsed-time buffer:
\* 4 bytes at offset 0 that are the native-endian encoding of t.
C1_PrepareNone ==
    \A i \in PrepareCalls(Instanced) :
        calls[i].camera = None =>
            LET ws == CallWrites(calls[i])
                o  == StructOf(calls[i].self)
            IN  /\ Len(ws) = 1
                /\ \A j \in DOMAIN ws : ws[j].buffer # o.camera_buffer
                /\ ws[1].buffer = o.elapsed_time_buffer
                /\ ws[1].offset = 0
                /\ ws[1].size = 4
                /\ Len(ws[1].data) = 4
                /\ \A j \in 1..4 : ws[1].data[j] \in 0..255
                /\ FromNeBytes(ws[1].data, endian) = calls[i].elapsed_time

C1_Witness ==
    /\ \E i \in PrepareCalls({"Pentagon"}) :
           calls[i].camera = None /\ calls[i].elapsed_time # 0
    /\ \E i \in PrepareCalls({"Cube"}) :
           calls[i].camera = None /\ calls[i].elapsed_time # 0

\* the single camera-uniform write of a prepare(queue, Some(camera), t):
\* first in the call, 64 bytes at offset 0, the 16 words of the view-projection
\* matrix of the camera supplied
CameraWriteOk(c) ==
    LET ws == CallWrites(c)
        o  == StructOf(c.self)
        cw == {j \in DOMAIN ws : ws[j].buffer = o.camera_buffer}
    IN  /\ cw = {1}
        /\ ws[1].offset = 0
        /\ ws[1].size = 64
        /\ Len(ws[1].data) = 16
        /\ ws[1].data = Flatten(ViewProjectionOf[Unwrap(c.camera)])

SomeCalls == {i \in PrepareCalls(Instanced) : IsSome(calls[i].camera)}

CameraPayload(i) == CallWrites(calls[i])[1].data

\* C2 as stated: every prepare(queue, Some(camera), t) queues exactly one
\* 64-byte camera-uniform write at offset 0 holding the recomputed matrix, and
\* two such calls with different camera states have different payloads.
C2_Original ==
    /\ \A i \in SomeCalls : CameraWriteOk(calls[i])
    /\ \A i, j \in SomeCalls :
           calls[i].camera # calls[j].camera => CameraPayload(i) # CameraPayload(j)

\* C2 as amended: every prepare(queue, Some(camera), t) queues exactly one
\* 64-byte camera-uniform write at offset 0 holding the view-projection
\* matrix of the supplied camera; two such calls make two distinct writes,
\* whose payloads differ exactly when the two view-projection matrices differ.
C2_Amended ==
    /\ \A i \in SomeCalls : CameraWriteOk(calls[i])
    /\ \A i, j \in SomeCalls :
           /\ i # j => calls[i].first # calls[j].first
           /\ (CameraPayload(i) # CameraPayload(j))
                  <=> (ViewProjectionOf[Unwrap(calls[i].camera)]
                           # ViewProjectionOf[Unwrap(calls[j].camera)])

C2_Witness ==
    \E i, j \in SomeCalls :
        /\ i < j
        /\ calls[j].self = "Cube"
        /\ calls[i].camera # calls[j].camera
        /\ CameraPayload(i) # CameraPayload(j)

\* C3 as stated: while prepare has only been called with None, the
\* camera-uniform buffer of a Pentagon or Cube holds its construction-time
\* contents, and those are the identity matrix.
C3_Original ==
    \A k \in Instanced :
        ~supplied[k] =>
            buffers[StructOf(k).camera_buffer].contents = Flatten(Identity4)

\* C3 as amended: while prepare has only been called with None, the
\* camera-uniform buffer of a Pentagon or Cube holds its construction-time
\* contents, and those are the 64 bytes of the view-projection matrix of the
\* camera given to new (which is not the identity matrix).
C3_Amended ==
    \A k \in Instanced :
        ~supplied[k] =>
            /\ buffers[StructOf(k).camera_buffer].contents
                   = Flatten(ViewProjectionOf[camera0])
            /\ buffers[StructOf(k).camera_buffer].size = 64
            /\ ViewProjectionOf[camera0] # Identity4

C3_Witness ==
    /\ ~supplied["Pentagon"]
    /\ ~supplied["Cube"]
    /\ \E i \in PrepareCalls({"Pentagon"}) : calls[i].camera = None
    /\ \E i \in PrepareCalls({"Cube"}) : calls[i].camera = None

NextRender ==
    \/ BeginRenderPass /\ UNCHANGED <<grid, sized, mainVars>>
    \/ PentagonRender /\ UNCHANGED <<grid, sized, mainVars>>
    \/ CubeRender /\ UNCHANGED <<grid, sized, mainVars>>
    \/ CharRender /\ UNCHANGED <<grid, sized, mainVars>>
    \/ EndRenderPass /\ UNCHANGED <<grid, sized, mainVars>>

SpecRender == Init /\ [][NextRender]_vars

----------------------------------------------------------------------------
(* Properties of render                                                    *)

Kinds == {"Pentagon", "Cube", "Char"}

ObjectOf(kind) ==
    CASE kind = "Pentagon" -> pentagon
      [] kind = "Cube" -> cube
      [] kind = "Char" -> char

RenderCalls(kinds) ==
    {i \in DOMAIN calls : calls[i].fn = "render" /\ calls[i].self \in kinds}

SetMax(S) == CHOOSE x \in S : \A y \in S : y <= x

\* the positions of the draw calls of call c, in order of recording
DrawsOf(c) == {d \in c.first..c.last : rpass.commands[d].op = "draw_indexed"}

\* what the pass has bound for (op, slot) when command d is recorded: the
\* resource of the latest such command before d, or None
BoundAt(d, op, slot) ==
    LET S == {j \in 1..(d - 1) :
                 rpass.commands[j].op = op /\ rpass.commands[j].slot = slot}
    IN  IF S = {} THEN None ELSE Some(rpass.commands[SetMax(S)].res)

\* the number of draws of call c recorded before position d, plus one: the
\* mesh that the draw at d is for
MeshIndex(c, d) == Cardinality({x \in DrawsOf(c) : x <= d})

\* C4: when render issues a draw call, the object's pipeline is set, its bind
\* groups are bound at slots 0 = texture, 1 = camera, 2 = elapsed time (Char
\* binds slot 0 only), the mesh's vertex buffer is at vertex slot 0, the
\* per-instance buffer at vertex slot 1 for the instanced objects, and the
\* mesh's index buffer is bound.
C4_BoundAtDraw ==
    \A i \in RenderCalls(Kinds) :
        LET c == calls[i]
            o == ObjectOf(c.self)
        IN  /\ \A d \in DrawsOf(c) :
                LET mesh == o.model.meshes[MeshIndex(c, d)]
                IN  /\ BoundAt(d, "set_pipeline", 0) = Some(o.render_pipeline)
                    /\ BoundAt(d, "set_bind_group", 0) = Some(o.diffuse_bind_group)
                    /\ BoundAt(d, "set_vertex_buffer", 0) = Some(mesh.vertex_buffer)
                    /\ BoundAt(d, "set_index_buffer", 0) = Some(mesh.index_buffer)
                    /\ c.self \in Instanced =>
                        /\ BoundAt(d, "set_bind_group", 1) = Some(o.camera_bind_group)
                        /\ BoundAt(d, "set_bind_group", 2) = Some(o.elapsed_time_bind_group)
                        /\ BoundAt(d, "set_vertex_buffer", 1) = Some(o.instance_buffer)
            /\ c.self = "Char" =>
                \A j \in c.first..c.last :
                    /\ rpass.commands[j].op = "set_bind_group" => rpass.commands[j].slot = 0
                    /\ rpass.commands[j].op = "set_vertex_buffer" => rpass.commands[j].slot = 0

C4_Witness ==
    /\ \E i \in RenderCalls({"Cube"}) : Cardinality(DrawsOf(calls[i])) = 2
    /\ \E i \in RenderCalls({"Char"}) : Cardinality(DrawsOf(calls[i])) = 1
    /\ calls[1].self = "Cube"

\* C5: one call of render issues exactly one indexed draw call for each mesh
\* of the object's model, each with the instance count Len(instances) for
\* Pentagon and Cube and 1 for Char.
C5_OneDrawPerMesh ==
    \A i \in RenderCalls(Kinds) :
        LET c == calls[i]
            o == ObjectOf(c.self)
            n == IF c.self \in Instanced THEN Len(o.instances) ELSE 1
        IN  /\ Cardinality(DrawsOf(c)) = Len(o.model.meshes)
            /\ \A d \in DrawsOf(c) :
                   LET a == rpass.commands[d].args
                   IN  a.instances[2] - a.instances[1] = n

C5_Witness ==
    /\ \E i \in RenderCalls({"Pentagon"}) : Cardinality(DrawsOf(calls[i])) = 1
    /\ \E i \in RenderCalls({"Cube"}) : Cardinality(DrawsOf(calls[i])) = 2

\* C6: render of the Pentagon, built from the 5-vertex / 9-index mesh, issues
\* exactly one indexed draw call: index count 9 from first index 0, base
\* vertex 0, first instance 0, and as many instances as the instance list
\* holds.
C6_PentagonDraw ==
    \A i \in RenderCalls({"Pentagon"}) :
        LET c == calls[i]
            mesh == pentagon.model.meshes[1]
        IN  /\ Len(buffers[mesh.vertex_buffer].contents) = 5
            /\ Len(buffers[mesh.index_buffer].contents) = 9
            /\ Cardinality(DrawsOf(c)) = 1
            /\ \A d \in DrawsOf(c) :
                   LET a == rpass.commands[d].args
                   IN  /\ a.indices = <<0, 9>>
                       /\ a.base_vertex = 0
                       /\ a.instances = <<0, Len(pentagon.instances)>>
                       /\ Len(pentagon.instances) = 100

C6_Witness ==
    \E i \in RenderCalls({"Pentagon"}) :
        \E d \in DrawsOf(calls[i]) : rpass.commands[d].op = "draw_indexed" /\ ~rpass.open

----------------------------------------------------------------------------
(* create_instances, applied to every number of rows up to MaxRows         *)

PentagonCreateInstances ==
    \E n \in 0..MaxRows :
        /\ grid' = [kind |-> "Pentagon", rows |-> n,
                    instances |-> Pentagon_create_instances(n)]
        /\ UNCHANGED <<objVars, sized, mainVars>>

CubeCreateInstances ==
    \E n \in 0..MaxRows :
        /\ grid' = [kind |-> "Cube", rows |-> n,
                    instances |-> Cube_create_instances(n)]
        /\ UNCHANGED <<objVars, sized, mainVars>>

NextGrid == PentagonCreateInstances \/ CubeCreateInstances

SpecGrid == Init /\ [][NextGrid]_vars

\* the step between neighbouring cells and the height, per kind
GridStep(kind) == IF kind = "Pentagon" THEN 1 ELSE 3
GridY(kind) == IF kind = "Pentagon" THEN 2 ELSE -2

\* the grids to look at: the last result of create_instances and the
\* instance lists the constructors made with create_instances(10)
Grids ==
    {[kind |-> "Pentagon", rows |-> 10, instances |-> pentagon.instances],
     [kind |-> "Cube", rows |-> 10, instances |-> cube.instances]}
    \cup (IF grid.kind \in Instanced THEN {grid} ELSE {})

\* C7: create_instances(N) returns N x 10 instances, row by row (z outer, x
\* inner); the instance of cell (x, z) is at (x * step, y0, z * step) minus
\* (5, 0, 5), so neighbours are one step apart (step 1, y0 2 for Pentagon;
\* step 3, y0 -2 for Cube).
C7_Grid ==
    \A g \in Grids :
        LET step == GridStep(g.kind)
            at(x, z) == g.instances[z * 10 + x + 1].position
        IN  /\ Len(g.instances) = g.rows * 10
            /\ \A z \in 0..(g.rows - 1) : \A x \in 0..9 :
                   /\ at(x, z) = <<x * step - 5, GridY(g.kind), z * step - 5>>
                   /\ x < 9 => Sub3(at(x + 1, z), at(x, z)) = <<step, 0, 0>>
                   /\ z < g.rows - 1 => Sub3(at(x, z + 1), at(x, z)) = <<0, 0, step>>

C7_Witness == grid.kind = "Cube" /\ grid.rows = 11 /\ Len(grid.instances) = 110

ZeroAngle == [axis |-> [dir |-> <<0, 0, 1>>, len2 |-> 1], deg |-> 0]

\* the index of the cell at the centre of the 10 x 10 grid, x = z = 5
CenterIndex == 5 * 10 + 5 + 1

TenRowGrids == {g \in Grids : g.rows = 10}

\* C8 as stated: in the 10 x 10 grid of Pentagon and of Cube, the instance at
\* the centre-of-grid index has the zero-angle rotation about the z axis.
C8_Original ==
    \A g \in TenRowGrids : g.instances[CenterIndex].rotation = ZeroAngle

\* C8 as amended: an instance has the zero-angle rotation about the z axis
\* exactly when its position is the zero vector; every position of the grid
\* has y = 2 (Pentagon) or y = -2 (Cube), so no instance, the one at the
\* centre-of-grid index included, is at the zero vector and every instance
\* has the 45 degree rotation about its normalized position.
C8_Amended ==
    \A g \in Grids : \A i \in DOMAIN g.instances :
        LET inst == g.instances[i]
        IN  /\ (inst.rotation = ZeroAngle) <=> (inst.position = <<0, 0, 0>>)
            /\ inst.position[2] = GridY(g.kind)
            /\ inst.rotation.deg = 45
            /\ inst.rotation.axis.dir[2] # 0
            /\ \E k \in 1..13 : inst.position = [j \in 1..3 |-> k * inst.rotation.axis.dir[j]]

C8_Witness ==
    /\ grid.kind = "Pentagon"
    /\ grid.rows = 10
    /\ grid.instances[CenterIndex].position = <<0, 2, 0>>
    /\ grid.instances[CenterIndex].rotation.deg = 45

----------------------------------------------------------------------------
(* main.rs: the closure given to event_loop.run, one action per match arm  *)

Dims == 0..MaxDim

\* an API call made by the handler
Call(op, args) == [op |-> op, args |-> args]

\* the window size: window.inner_size() at start, size of a Resized event
PhysicalSize(w, h) == [width |-> w, height |-> h]

\* let indices = [0, 1, 4, 1, 2, 4, 2, 3, 4].to_vec()
indices == <<0, 1, 4, 1, 2, 4, 2, 3, 4>>

\* the RenderPassDescriptor of the pass of the RedrawRequested arm
MainPassDescriptor ==
    [color_attachments |-> <<[load |-> "Clear(WHITE)", store |-> TRUE]>>,
     depth_stencil_attachment |-> None]

\* the commands recorded in the block of the pass
MainPassCommands ==
    <<set_pipeline(<<"main", "render_pipeline">>),
      set_bind_group(0, <<"main", "diffuse_bind_group">>),
      set_vertex_buffer(0, <<"main", "vertex_buffer">>),
      set_index_buffer(<<"main", "index_buffer">>, "Uint32"),
      draw_indexed(0, Len(indices), 0, 0, 1)>>

\* the RedrawRequested arm with the second pass of main.rs:397-414 enabled
RedrawRequested_two_passes(acquired) ==
    IF ~acquired
    THEN <<Call("get_current_texture", "Err"),
           Call("panic", "Failed to acquire next swap chain texture")>>
    ELSE <<Call("get_current_texture", "Ok"),
           Call("create_view", <<>>),
           Call("create_command_encoder", <<>>),
           Call("begin_render_pass", MainPassDescriptor)>>
         \o [i \in 1..Len(MainPassCommands) |-> Call("rpass", MainPassCommands[i])]
         \o <<Call("end_render_pass", <<>>),
              Call("begin_render_pass",
                   [color_attachments |-> <<[load |-> "Load", store |-> TRUE]>>,
                    depth_stencil_attachment |-> None]),
              Call("rpass", set_pipeline(<<"main", "render_pipeline">>)),
              Call("rpass", set_vertex_buffer(0, <<"main", "vertex_buffer2">>)),
              Call("rpass", set_index_buffer(<<"main", "index_buffer2">>, "Uint32")),
              Call("rpass", draw_indexed(0, 3, 0, 0, 1)),
              Call("end_render_pass", <<>>),
              Call("finish", <<>>),
              Call("submit", <<>>),
              Call("present", <<>>)>>

\* the RedrawRequested arm driving the Renderables: prepare on each before
\* the pass, render on each inside it
RedrawRequested_renderables(acquired) ==
    IF ~acquired
    THEN <<Call("get_current_texture", "Err"),
           Call("panic", "Failed to acquire next swap chain texture")>>
    ELSE <<Call("get_current_texture", "Ok"),
           Call("create_view", <<>>),
           Call("create_command_encoder", <<>>),
           Call("prepare", "Pentagon"), Call("prepare", "Cube"), Call("prepare", "Char"),
           Call("begin_render_pass", MainPassDescriptor),
           Call("render", "Pentagon"), Call("render", "Cube"), Call("render", "Char"),
           Call("end_render_pass", <<>>),
           Call("finish", <<>>),
           Call("submit", <<>>),
           Call("present", <<>>)>>

\* the RedrawRequested arm that gives the frame up when acquisition failed
RedrawRequested_skip(acquired) ==
    IF ~acquired
    THEN <<Call("get_current_texture", "Err")>>
    ELSE <<Call("get_current_texture", "Ok"),
           Call("create_view", <<>>),
           Call("create_command_encoder", <<>>),
           Call("begin_render_pass", MainPassDescriptor)>>
         \o [i \in 1..Len(MainPassCommands) |-> Call("rpass", MainPassCommands[i])]
         \o <<Call("end_render_pass", <<>>),
              Call("finish", <<>>),
              Call("submit", <<>>),
              Call("present", <<>>)>>

\* the RedrawRequested arm with the index data written inside the pass
RedrawRequested_write_in_pass(acquired) ==
    IF ~acquired
    THEN <<Call("get_current_texture", "Err"),
           Call("panic", "Failed to acquire next swap chain texture")>>
    ELSE <<Call("get_current_texture", "Ok"),
           Call("create_view", <<>>),
           Call("create_command_encoder", <<>>),
           Call("begin_render_pass", MainPassDescriptor),
           Call("write_buffer", [buffer |-> <<"main", "index_buffer">>, offset |-> 0,
                                 size |-> 4 * Len(indices)])>>
         \o [i \in 1..Len(MainPassCommands) |-> Call("rpass", MainPassCommands[i])]
         \o <<Call("end_render_pass", <<>>),
              Call("finish", <<>>),
              Call("submit", <<>>),
              Call("present", <<>>)>>

\* the RedrawRequested arm that presents the frame before it submits
RedrawRequested_present_first(acquired) ==
    IF ~acquired
    THEN <<Call("get_current_texture", "Err"),
           Call("panic", "Failed to acquire next swap chain texture")>>
    ELSE <<Call("get_current_texture", "Ok"),
           Call("create_view", <<>>),
           Call("create_command_encoder", <<>>),
           Call("begin_render_pass", MainPassDescriptor)>>
         \o [i \in 1..Len(MainPassCommands) |-> Call("rpass", MainPassCommands[i])]
         \o <<Call("end_render_pass", <<>>),
              Call("present", <<>>),
              Call("finish", <<>>),
              Call("submit", <<>>)>>

\* the calls of the RedrawRequested arm, in order; the pass ends where its
\* block ends (rpass is dropped), expect panics when acquisition failed
RedrawRequested(acquired) ==
    IF ~acquired
    THEN <<Call("get_current_texture", "Err"),
           Call("panic", "Failed to acquire next swap chain texture")>>
    ELSE <<Call("get_current_texture", "Ok"),
           Call("create_view", <<>>),
           Call("create_command_encoder", <<>>),
           Call("begin_render_pass", MainPassDescriptor)>>
         \o [i \in 1..Len(MainPassCommands) |-> Call("rpass", MainPassCommands[i])]
         \o <<Call("end_render_pass", <<>>),
              Call("finish", <<>>),
              Call("submit", <<>>),
              Call("present", <<>>)>>

\* struct Vertex: pos [f32; 2], color [f32; 3], has_texture [f32; 1],
\* tex_coords [f32; 2], repr(C)
\* u64 values are kept as their 64 bits, least significant first
u64_BITS == 64
Bits == 1..u64_BITS

\* the bits of a small natural number (below 2^31)
ToBits(n) == [i \in Bits |-> IF i > 31 THEN 0 ELSE (n \div 2^(i - 1)) % 2]

\* the bits with bit i alone set: 2^(i-1)
OneHot(i) == [j \in Bits |-> IF j = i THEN 1 ELSE 0]

RECURSIVE FromBitsUpTo(_, _)
FromBitsUpTo(b, i) ==
    IF i = 0 THEN 0 ELSE b[i] * 2^(i - 1) + FromBitsUpTo(b, i - 1)

\* the number a u64 with no bit set above the 31st stands for
FromBits(b) == FromBitsUpTo(b, 31)

BitAnd(a, b) == [i \in Bits |-> a[i] * b[i]]
BitNot(a) == [i \in Bits |-> 1 - a[i]]

\* the carry into bit i of a + b
RECURSIVE CarryInto(_, _, _)
CarryInto(a, b, i) ==
    IF i = 1 THEN 0
    ELSE (a[i - 1] + b[i - 1] + CarryInto(a, b, i - 1)) \div 2

\* a + b modulo 2^64
WrappingAdd(a, b) == [i \in Bits |-> (a[i] + b[i] + CarryInto(a, b, i)) % 2]

\* a < b as unsigned numbers
BitsLess(a, b) ==
    \E i \in Bits : a[i] < b[i] /\ \A j \in Bits : j > i => a[j] = b[j]

\* Ord::max
BitsMax(a, b) == IF BitsLess(a, b) THEN b ELSE a

SetBits(a) == {i \in Bits : a[i] = 1}
HighBit(a) == CHOOSE i \in SetBits(a) : \A j \in SetBits(a) : j <= i

\* u64::next_power_of_two: the smallest power of two >= self; when that is
\* 2^64 it panics with overflow checks on and gives 0 with them off
next_power_of_two(self, overflow_checks) ==
    IF SetBits(self) = {} THEN [panicked |-> FALSE, value |-> OneHot(1)]
    ELSE IF Cardinality(SetBits(self)) = 1 THEN [panicked |-> FALSE, value |-> self]
    ELSE IF HighBit(self) < u64_BITS
         THEN [panicked |-> FALSE, value |-> OneHot(HighBit(self) + 1)]
    ELSE [panicked |-> overflow_checks, value |-> ToBits(0)]

\* wgpu::COPY_BUFFER_ALIGNMENT
COPY_BUFFER_ALIGNMENT == 4

\* next_copy_buffer_size that aligns the size without rounding it up to a
\* power of two
next_copy_buffer_size_aligned(size, overflow_checks) ==
    LET align_mask == ToBits(COPY_BUFFER_ALIGNMENT - 1)
    IN  [panicked |-> FALSE,
         value |-> BitsMax(BitAnd(WrappingAdd(size, align_mask), BitNot(align_mask)),
                           ToBits(COPY_BUFFER_ALIGNMENT))]

\* fn next_copy_buffer_size(size: u64) -> u64
next_copy_buffer_size(size, overflow_checks) ==
    LET align_mask == ToBits(COPY_BUFFER_ALIGNMENT - 1)
        p == next_power_of_two(size, overflow_checks)
    IN  IF p.panicked THEN p
        ELSE [panicked |-> FALSE,
              value |-> BitsMax(BitAnd(WrappingAdd(p.value, align_mask),
                                       BitNot(align_mask)),
                                ToBits(COPY_BUFFER_ALIGNMENT))]

\* the size the two set-up buffers of run are created with
main_buffer_size == FromBits(next_copy_buffer_size(ToBits(4096), TRUE).value)

size_of_Vertex == (2 + 3 + 1 + 2) * size_of_f32

\* the elements of `indices` are i32, the default integer type
size_of_i32 == size_of_f32

\* the set-up with an index buffer created for nine 4-byte indices
SetUp_index_buffer_for_u32(size) ==
    <<Call("configure", size),
      Call("create_buffer", [buffer |-> <<"main", "vertex_buffer">>,
                             size |-> main_buffer_size]),
      Call("create_buffer", [buffer |-> <<"main", "index_buffer">>,
                             size |-> FromBits(next_copy_buffer_size(
                                          ToBits(size_of_i32 * Len(indices)), TRUE).value)]),
      Call("write_buffer", [buffer |-> <<"main", "vertex_buffer">>, offset |-> 0,
                            size |-> size_of_Vertex * 5,
                            source |-> size_of_Vertex * 5]),
      Call("write_buffer", [buffer |-> <<"main", "index_buffer">>, offset |-> 0,
                            size |-> size_of_Vertex * Len(indices),
                            source |-> size_of_i32 * Len(indices)]),
      Call("write_texture", <<"main", "diffuse_texture">>)>>

\* the surface, device and queue calls of run before the event loop starts.
\* Both uploaded slices are size_of::<Vertex>() * len bytes long; `source` is
\* the size in bytes of the Vec the slice points into.
SetUp(size) ==
    <<Call("configure", size),
      Call("create_buffer", [buffer |-> <<"main", "vertex_buffer">>,
                             size |-> main_buffer_size]),
      Call("create_buffer", [buffer |-> <<"main", "index_buffer">>,
                             size |-> main_buffer_size]),
      Call("write_buffer", [buffer |-> <<"main", "vertex_buffer">>, offset |-> 0,
                            size |-> size_of_Vertex * 5,
                            source |-> size_of_Vertex * 5]),
      Call("write_buffer", [buffer |-> <<"main", "index_buffer">>, offset |-> 0,
                            size |-> size_of_Vertex * Len(indices),
                            source |-> size_of_i32 * Len(indices)]),
      Call("write_texture", <<"main", "diffuse_texture">>)>>

\* the state after run's set-up: config is made from window.inner_size()
\* and the surface is configured with it
MainStart ==
    \E w \in Dims, h \in Dims :
        /\ control_flow = "Poll"
        /\ loop_flow = "Poll"
        /\ config = PhysicalSize(w, h)
        /\ surface = PhysicalSize(w, h)
        /\ redraw_requested = FALSE
        /\ trace = SetUp(PhysicalSize(w, h))
        /\ last_event = Event("None", <<>>)
        /\ panicked = FALSE

InitMain == InitObjects /\ GridIdle /\ SizeIdle /\ MainStart

\* the event loop calls the closure until it has delivered LoopDestroyed or
\* the closure panicked
Running == last_event.kind # "LoopDestroyed" /\ ~panicked

\* the control flow with the Escape arm taken whatever the state of the key
ControlFlowOf_any_escape(event) ==
    IF \/ event.kind = "CloseRequested"
       \/ /\ event.kind = "KeyboardInput"
          /\ event.payload.virtual_keycode = Some("Escape")
    THEN "Exit" ELSE "Wait"

\* the control flow without the arm for the pressed Escape key
ControlFlowOf_close_only(event) ==
    IF event.kind = "CloseRequested" THEN "Exit" ELSE "Wait"

\* what the closure leaves in *control_flow: Wait is assigned first, the
\* arms of CloseRequested and of the pressed Escape key assign Exit
ControlFlowOf(event) ==
    IF \/ event.kind = "CloseRequested"
       \/ /\ event.kind = "KeyboardInput"
          /\ event.payload.state = "Pressed"
          /\ event.payload.virtual_keycode = Some("Escape")
    THEN "Exit" ELSE "Wait"

\* the control flow the loop goes on with: Exit is sticky, the closure is
\* handed a dummy once the control flow is Exit, and what it leaves there
\* is dropped
Sticky(before, written) == IF before = "Exit" THEN "Exit" ELSE written

\* the Resized arm without the request for a redraw
Resized_no_redraw(size) == <<Call("configure", size)>>

\* the Resized arm that only stores the size and requests the redraw
Resized_unconfigured(size) == <<Call("request_redraw", <<>>)>>

\* the calls of the Resized arm, made after config.width and config.height
\* are set from the size of the event
Resized(size) == <<Call("configure", size), Call("request_redraw", <<>>)>>

\* what the surface is configured with after the calls of a handler
Configured(calls_made, before) ==
    LET C == {i \in DOMAIN calls_made : calls_made[i].op = "configure"}
    IN  IF C = {} THEN before
        ELSE calls_made[CHOOSE i \in C : \A j \in C : j <= i].args

\* is a redraw pending after the calls of a handler
Requested(calls_made, before) ==
    before \/ \E i \in DOMAIN calls_made : calls_made[i].op = "request_redraw"

OnResized ==
    \E w \in Dims, h \in Dims :
        /\ Running
        /\ last_event' = Event("Resized", PhysicalSize(w, h))
        /\ control_flow' = ControlFlowOf(last_event')
        /\ loop_flow' = Sticky(loop_flow, control_flow')
        /\ config' = PhysicalSize(w, h)
        /\ trace' = Resized(config')
        /\ surface' = Configured(trace', surface)
        /\ redraw_requested' = Requested(trace', redraw_requested)
        /\ UNCHANGED <<objVars, grid, sized, panicked>>

\* expect panics on Err
Panics(calls_made) == \E i \in DOMAIN calls_made : calls_made[i].op = "panic"

OnRedrawRequested ==
    \E acquired \in BOOLEAN :
        /\ Running
        /\ last_event' = Event("RedrawRequested", <<>>)
        /\ control_flow' = ControlFlowOf(last_event')
        /\ loop_flow' = Sticky(loop_flow, control_flow')
        /\ redraw_requested' = FALSE
        /\ trace' = RedrawRequested(acquired)
        /\ panicked' = Panics(trace')
        /\ UNCHANGED <<objVars, grid, sized, config, surface>>

OnKeyboardInput ==
    \E state \in {"Pressed", "Released"},
       virtual_keycode \in {None, Some("Escape"), Some("Left")} :
        /\ Running
        /\ last_event' = Event("KeyboardInput",
                                [state |-> state, virtual_keycode |-> virtual_keycode])
        /\ control_flow' = ControlFlowOf(last_event')
        /\ loop_flow' = Sticky(loop_flow, control_flow')
        /\ trace' = <<>>
        /\ UNCHANGED <<objVars, grid, sized, config, surface, redraw_requested, panicked>>

OnCloseRequested ==
    /\ Running
    /\ last_event' = Event("CloseRequested", <<>>)
    /\ control_flow' = ControlFlowOf(last_event')
    /\ loop_flow' = Sticky(loop_flow, control_flow')
    /\ trace' = <<>>
    /\ UNCHANGED <<objVars, grid, sized, config, surface, redraw_requested, panicked>>

\* the MainEventsCleared arm without the request for a redraw
MainEventsCleared_idle == <<>>

\* Event::MainEventsCleared => window.request_redraw()
MainEventsCleared == <<Call("request_redraw", <<>>)>>

OnMainEventsCleared ==
    /\ Running
    /\ last_event' = Event("MainEventsCleared", <<>>)
    /\ control_flow' = ControlFlowOf(last_event')
    /\ loop_flow' = Sticky(loop_flow, control_flow')
    /\ trace' = MainEventsCleared
    /\ redraw_requested' = Requested(trace', redraw_requested)
    /\ UNCHANGED <<objVars, grid, sized, config, surface, panicked>>

\* the arm `_ => {}`
OnOtherEvent ==
    \E event \in {"NewEvents", "RedrawEventsCleared", "CursorMoved", "Focused"} :
        /\ Running
        /\ last_event' = Event(event, <<>>)
        /\ control_flow' = ControlFlowOf(last_event')
        /\ loop_flow' = Sticky(loop_flow, control_flow')
        /\ trace' = <<>>
        /\ UNCHANGED <<objVars, grid, sized, config, surface, redraw_requested, panicked>>

\* the last event of the loop, sent once the control flow is Exit; it
\* is handled by the arm `_ => {}`
OnLoopDestroyed ==
    /\ Running
    /\ loop_flow = "Exit"
    /\ last_event' = Event("LoopDestroyed", <<>>)
    /\ control_flow' = ControlFlowOf(last_event')
    /\ loop_flow' = Sticky(loop_flow, control_flow')
    /\ trace' = <<>>
    /\ UNCHANGED <<objVars, grid, sized, config, surface, redraw_requested, panicked>>

NextMain ==
    \/ OnResized
    \/ OnRedrawRequested
    \/ OnKeyboardInput
    \/ OnCloseRequested
    \/ OnMainEventsCleared
    \/ OnOtherEvent
    \/ OnLoopDestroyed

SpecMain == InitMain /\ [][NextMain]_vars

----------------------------------------------------------------------------
(* Properties of the redraw                                                *)

\* the last handler invocation was a redraw whose frame was acquired
Redrawn == last_event.kind = "RedrawRequested" /\ ~panicked

\* positions of the calls of an operation in the trace
At(op) == {i \in DOMAIN trace : trace[i].op = op}
SetMin(S) == CHOOSE m \in S : \A n \in S : m <= n

\* the calls made on one Renderable
OnRenderable(op, kind) == {i \in At(op) : trace[i].args = kind}

\* position i is inside a render pass: the last begin or end before it is a begin
InPass(i) ==
    \E b \in At("begin_render_pass") :
        /\ b < i
        /\ \A e \in At("end_render_pass") : ~(b < e /\ e < i)

PassesOpened ==
    LET B == At("begin_render_pass")
        nth[i \in 1..Cardinality(B)] ==
            CHOOSE b \in B : Cardinality({c \in B : c < b}) = i - 1
    IN  [i \in 1..Cardinality(B) |-> trace[nth[i]].args]

\* every pass has ended before the submit, and the submit is before the present
PassesEndBeforeSubmitAndPresent ==
    /\ Cardinality(At("submit")) = 1
    /\ Cardinality(At("present")) = 1
    /\ Cardinality(At("end_render_pass")) = Cardinality(At("begin_render_pass"))
    /\ \A s \in At("submit") :
           /\ ~InPass(s)
           /\ \A e \in At("end_render_pass") : e < s
           /\ \A p \in At("present") : s < p

----------------------------------------------------------------------------
(* Properties of the resize                                                *)

\* the last handler invocation was for a Resized event
ResizedLast == last_event.kind = "Resized"

----------------------------------------------------------------------------
(* Properties of the exit                                                  *)

\* the calls in which a handler invocation acquires, submits or presents
FrameCalls(calls_made) ==
    {i \in DOMAIN calls_made :
        calls_made[i].op \in {"get_current_texture", "submit", "present"}}

\* the events on which the loop is to end
ExitEvent(event) ==
    \/ event.kind = "CloseRequested"
    \/ /\ event.kind = "KeyboardInput"
       /\ event.payload = [state |-> "Pressed", virtual_keycode |-> Some("Escape")]

\* C12 as stated: after a CloseRequested event or a pressed Escape key has
\* been handled the control flow is Exit, and no later handler invocation
\* acquires, submits or presents a frame or turns the control flow back to
\* Wait.
C12_Original ==
    [][/\ ExitEvent(last_event') => control_flow' = "Exit" /\ loop_flow' = "Exit"
       /\ loop_flow = "Exit" =>
              /\ loop_flow' = "Exit"
              /\ FrameCalls(trace') = {}]_vars

\* C12 as amended: after a CloseRequested event or a pressed Escape key has
\* been handled the control flow is Exit and no later handler invocation
\* turns it back to Wait; the handler is invoked no more once LoopDestroyed
\* was delivered, and LoopDestroyed is delivered only when the control flow
\* is Exit.  An event delivered between the two is handled as ever: a
\* RedrawRequested among them still acquires, submits and presents a frame.
C12_Amended ==
    [][/\ ExitEvent(last_event') => control_flow' = "Exit" /\ loop_flow' = "Exit"
       /\ loop_flow = "Exit" => loop_flow' = "Exit"
       /\ last_event.kind # "LoopDestroyed"
       /\ last_event'.kind = "LoopDestroyed" => loop_flow = "Exit"
       /\ (last_event'.kind = "RedrawRequested" /\ ~panicked') =>
              Cardinality(FrameCalls(trace')) = 3]_vars

\* a frame was presented by an invocation after the exit event
C12_Witness ==
    /\ loop_flow = "Exit"
    /\ last_event.kind = "RedrawRequested"
    /\ At("present") # {}

----------------------------------------------------------------------------
(* Properties of a failed acquisition                                      *)

AcquireFailed(calls_made) ==
    \E i \in DOMAIN calls_made : calls_made[i] = Call("get_current_texture", "Err")

Ops(calls_made) == {calls_made[i].op : i \in DOMAIN calls_made}

\* C13: if acquiring the frame fails during a redraw the process aborts with
\* the fixed message: no command encoder is created, nothing is submitted or
\* presented for that frame, the acquisition is made once and the handler is
\* never invoked again.
C13_AcquireFailureFatal ==
    [][/\ ~panicked
       /\ AcquireFailed(trace') =>
              /\ panicked'
              /\ trace' = <<Call("get_current_texture", "Err"),
                            Call("panic", "Failed to acquire next swap chain texture")>>
              /\ Ops(trace') \cap {"create_command_encoder", "begin_render_pass",
                                   "submit", "present"} = {}
       /\ panicked' => AcquireFailed(trace')]_vars

C13_Witness ==
    /\ panicked
    /\ last_event.kind = "RedrawRequested"
    /\ Len(trace) = 2
    /\ trace[2].args = "Failed to acquire next swap chain texture"

----------------------------------------------------------------------------
(* Properties of the borrows of a render pass                              *)

\* the resources the commands recorded so far in the open pass refer to
BorrowedAt(i) ==
    {trace[j].args.res : j \in {k \in At("rpass") : k < i /\ InPass(k) /\
                                 \A e \in At("end_render_pass") : ~(k < e /\ e < i)}}

\* C14: no resource is mutated while a render pass borrows it: every buffer
\* write the program queues is made while no render pass is open, and every
\* render pass has ended before its command encoder is finished and
\* submitted.
C14_NoWriteInPass ==
    /\ \A i \in At("write_buffer") :
           /\ ~InPass(i)
           /\ trace[i].args.buffer \notin BorrowedAt(i)
    /\ \A i \in At("write_texture") : ~InPass(i)
    /\ \A f \in At("finish") \cup At("submit") :
           /\ ~InPass(f)
           /\ \A b \in At("begin_render_pass") :
                  b < f /\ \E e \in At("end_render_pass") : b < e /\ e < f
    /\ \A f \in At("finish") : \A s \in At("submit") : f < s
    /\ \A i \in At("rpass") : InPass(i)

\* the writes of the set-up were made and a frame was drawn later
C14_Witness ==
    /\ Redrawn
    /\ BorrowedAt(SetMin(At("end_render_pass"))) =
           {<<"main", "render_pipeline">>, <<"main", "diffuse_bind_group">>,
            <<"main", "vertex_buffer">>, <<"main", "index_buffer">>, <<>>}
    /\ At("finish") # {}

----------------------------------------------------------------------------
(* Frames: a caller of the Renderables that calls prepare and render in any *)
(* order the signatures allow, ends the pass and submits.  A write_buffer   *)
(* is in `buffers` as the next submission will see it.                     *)

\* render borrows self for 'rpass: the object is borrowed from its first
\* command in the open pass until the pass is dropped
Borrowed(kind) ==
    /\ rpass.open
    /\ \E i \in DOMAIN rpass.commands :
           /\ rpass.commands[i].res # <<>>
           /\ rpass.commands[i].res[1] = kind

\* the elapsed time of the frame, 1.0
FrameTime == SetMax(Times)

\* prepare needs &mut self, which an open pass that borrows self rules out;
\* r is what prepare gives for the object and the camera
FramePrepared(kind, cam, r) ==
    /\ Len(calls) < MaxFrameCalls
    /\ ~Borrowed(kind)
    /\ queue' = queue \o r.writes
    /\ buffers' = WriteAll(buffers, r.writes)
    /\ calls' = Append(calls, PrepareCall(kind, cam, FrameTime, r.writes))
    /\ pentagon' = IF kind = "Pentagon" THEN r.self ELSE pentagon
    /\ cube' = IF kind = "Cube" THEN r.self ELSE cube
    /\ char' = IF kind = "Char" THEN r.self ELSE char
    /\ supplied' = IF kind \in DOMAIN supplied
                   THEN [supplied EXCEPT ![kind] = @ \/ IsSome(cam)]
                   ELSE supplied
    /\ UNCHANGED <<endian, rpass, camera0, grid, sized, mainVars>>

FramePentagonPrepare ==
    \E cam \in CameraArgs :
        FramePrepared("Pentagon", cam, Pentagon_prepare(pentagon, cam, FrameTime, endian))

FrameCubePrepare ==
    \E cam \in CameraArgs :
        FramePrepared("Cube", cam, Cube_prepare(cube, cam, FrameTime, endian))

FrameCharPrepare ==
    \E cam \in CameraArgs :
        FramePrepared("Char", cam, Char_prepare(char, cam, FrameTime, endian))

\* encoder.begin_render_pass, once the last command buffer was submitted
FrameBegin ==
    /\ ~rpass.open
    /\ rpass.commands = <<>>
    /\ rpass' = [open |-> TRUE, commands |-> <<>>]
    /\ UNCHANGED <<endian, pentagon, cube, char, buffers, queue, calls, camera0,
                   supplied, grid, sized, mainVars>>

FrameRender(kind, commands) ==
    /\ rpass.open
    /\ Len(calls) < MaxFrameCalls
    /\ rpass' = [rpass EXCEPT !.commands = @ \o commands]
    /\ calls' = Append(calls, RenderCall(kind, commands))
    /\ UNCHANGED <<endian, pentagon, cube, char, buffers, queue, camera0,
                   supplied, grid, sized, mainVars>>

FramePentagonRender == FrameRender("Pentagon", Pentagon_render(pentagon))
FrameCubeRender     == FrameRender("Cube", Cube_render(cube))
FrameCharRender     == FrameRender("Char", Char_render(char))

FrameEnd == EndRenderPass /\ UNCHANGED <<grid, sized, mainVars>>

\* queue.submit(Some(encoder.finish())), the pass has been dropped
FrameSubmit ==
    /\ ~rpass.open
    /\ rpass.commands # <<>>
    /\ rpass' = [open |-> FALSE, commands |-> <<>>]
    /\ UNCHANGED <<endian, pentagon, cube, char, buffers, queue, calls, camera0,
                   supplied, grid, sized, mainVars>>

NextFrame ==
    \/ FramePentagonPrepare
    \/ FrameCubePrepare
    \/ FrameCharPrepare
    \/ FrameBegin
    \/ FramePentagonRender
    \/ FrameCubeRender
    \/ FrameCharRender
    \/ FrameEnd
    \/ FrameSubmit

\* the objects as constructed with the first camera, on a little-endian
\* target, cube.obj of one mesh
InitFrame ==
    /\ Init
    /\ endian = "little"
    /\ Len(cube.model.meshes) = 1
    /\ camera0 = MkCamera(<<0, 0, 2>>, <<0, 0, 0>>)

SpecFrame == InitFrame /\ [][NextFrame]_vars

\* the buffer of a uniform bind group: binding 0 is the whole buffer
BoundBuffer(group) ==
    IF group[2] = "camera_bind_group" THEN <<group[1], "camera_buffer">>
    ELSE IF group[2] = "elapsed_time_bind_group" THEN <<group[1], "elapsed_time_buffer">>
    ELSE <<>>

\* the prepare calls made on an object with Some(camera), by position
CameraCalls(kind) ==
    {i \in DOMAIN calls : /\ calls[i].fn = "prepare"
                          /\ calls[i].self = kind
                          /\ IsSome(calls[i].camera)}

\* the camera of the latest of them, or the camera of construction
LatestCamera(kind) ==
    IF CameraCalls(kind) = {} THEN camera0
    ELSE Unwrap(calls[SetMax(CameraCalls(kind))].camera)

\* a command buffer is finished: the next submission executes its draws
ReadyToSubmit == ~rpass.open /\ rpass.commands # <<>>

\* the camera bind groups set in the finished command buffer
CameraGroupsDrawn ==
    {rpass.commands[i].res : i \in {k \in DOMAIN rpass.commands :
        /\ rpass.commands[k].op = "set_bind_group"
        /\ rpass.commands[k].slot = 1}}

\* C15: a camera-uniform write queued by prepare is on the queue before the
\* submission of the command buffer whose draw reads that buffer, so the draw
\* observes the matrix of the latest prepare made with a camera and never an
\* older one.
C15_DrawSeesLatestCamera ==
    ReadyToSubmit =>
        \A g \in CameraGroupsDrawn :
            LET kind == g[1]
                seen == buffers[BoundBuffer(g)].contents
            IN  /\ seen = Flatten(ViewProjectionOf[LatestCamera(kind)])
                /\ \A i \in CameraCalls(kind) :
                       /\ calls[i].first <= Len(queue)
                       /\ queue[calls[i].first].buffer = BoundBuffer(g)

\* two prepare calls gave the cube cameras of different matrices before its
\* draw is submitted
C15_Witness ==
    /\ ReadyToSubmit
    /\ <<"Cube", "camera_bind_group">> \in CameraGroupsDrawn
    /\ Cardinality(CameraCalls("Cube")) = 2
    /\ \E i \in CameraCalls("Cube"), j \in CameraCalls("Cube") :
           /\ i < j
           /\ ViewProjectionOf[Unwrap(calls[i].camera)]
                  # ViewProjectionOf[Unwrap(calls[j].camera)]
           /\ ViewProjectionOf[Unwrap(calls[j].camera)] # ViewProjectionOf[camera0]

----------------------------------------------------------------------------
(* What prepare leaves alone                                               *)

\* the fields of a Pentagon or Cube other than camera_uniform
FixedFields ==
    {"render_pipeline", "diffuse_bind_group", "camera_bind_group", "camera_buffer",
     "elapsed_time_buffer", "elapsed_time_bind_group", "instances",
     "instance_buffer", "model"}

UniformBuffers == {"camera_buffer", "elapsed_time_buffer"}

\* C16: prepare on a Pentagon or Cube creates no GPU resource and leaves the
\* pipeline, the bind groups, the vertex, index and instance buffers, the
\* instance list and the model unchanged; the only buffers written after
\* construction are the camera-uniform and the elapsed-time buffer.
C16_PrepareWritesUniformsOnly ==
    [][/\ DOMAIN buffers' = DOMAIN buffers
       /\ \A b \in DOMAIN buffers :
              /\ buffers'[b].size = buffers[b].size
              /\ b[2] \notin UniformBuffers => buffers'[b] = buffers[b]
       /\ \A f \in FixedFields :
              /\ pentagon'[f] = pentagon[f]
              /\ cube'[f] = cube[f]
       /\ \A i \in DOMAIN queue' :
              /\ queue'[i].buffer \in DOMAIN buffers
              /\ queue'[i].buffer[2] \in UniformBuffers]_vars

\* prepare was called with a camera on the Pentagon and on the Cube
C16_Witness ==
    /\ supplied["Pentagon"] /\ supplied["Cube"]
    /\ Len(queue) = 4
    /\ Len(cube.model.meshes) = MaxMeshes

----------------------------------------------------------------------------
(* Camera::update_aspect, called with the ratio of a window size            *)

\* width as f32 / height as f32, as the pair <<numerator, denominator>>:
\* <<w, 0>> is +inf for w > 0 and <<0, 0>> is NaN
F32Div(w, h) == IF h = 0 THEN <<w, 0>> ELSE Rat(w, h)

\* a > 0.0 in f32: true of +inf, false of NaN
F32Positive(a) == IF a[2] = 0 THEN a[1] > 0 ELSE a[1] * a[2] > 0

\* Camera::update_aspect(aspect): replaces the stored aspect ratio, no
\* validation of the input
update_aspect(self, aspect) == [self EXCEPT !.aspect = aspect]

\* a resize gives the Camera the ratio of the new size
UpdateAspect ==
    \E w \in Dims, h \in Dims :
        /\ camera0' = update_aspect(camera0, F32Div(w, h))
        /\ UNCHANGED <<endian, pentagon, cube, char, buffers, queue, calls, rpass,
                       supplied, grid, sized, mainVars>>

NextCamera == UpdateAspect

SpecCamera == Init /\ [][NextCamera]_vars

\* C17: in every reachable state the Camera has near < far and aspect > 0,
\* also after update_aspect was called for a resize of any window size.
C17_CameraInvariant ==
    /\ camera0.znear < camera0.zfar
    /\ F32Positive(camera0.aspect)

----------------------------------------------------------------------------
(* Properties of the other events                                          *)

\* the events the closure has an arm for
Wired(event) ==
    \/ event.kind \in {"Resized", "RedrawRequested", "MainEventsCleared", "CloseRequested"}
    \/ ExitEvent(event)

\* C18: only Resized, RedrawRequested, MainEventsCleared, CloseRequested and
\* a pressed Escape key have an effect: every other event, a released Escape
\* and any other key included, leaves the surface configuration unchanged,
\* draws nothing, requests no redraw and leaves the control flow at Wait.
C18_OtherEventsNoEffect ==
    [][~Wired(last_event') =>
           /\ config' = config
           /\ surface' = surface
           /\ trace' = <<>>
           /\ redraw_requested' = redraw_requested
           /\ panicked' = panicked
           /\ control_flow' = "Wait"]_vars

\* a released Escape was handled while no redraw was pending
C18_Witness ==
    /\ last_event.kind = "KeyboardInput"
    /\ last_event.payload = [state |-> "Released", virtual_keycode |-> Some("Escape")]
    /\ control_flow = "Wait"
    /\ ~redraw_requested
    /\ trace = <<>>

----------------------------------------------------------------------------
(* The vectors create_instances normalizes                                 *)

\* the rotation axis came out of normalize
Normalized(instance) == instance.rotation.deg = 45

\* C19: for every instance create_instances generates, in Pentagon and in
\* Cube and for any number of rows, the axis-normalized rotation is computed
\* only from a non-zero position: a zero vector is never normalized.
C19_NoZeroNormalize ==
    \A g \in Grids : \A i \in DOMAIN g.instances :
        LET inst == g.instances[i]
        IN  /\ Normalized(inst) =>
                   /\ ~is_zero(inst.position)
                   /\ inst.rotation.axis.len2 > 0
                   /\ inst.rotation.axis = normalize(inst.position)
            /\ ~Normalized(inst) =>
                   /\ is_zero(inst.position)
                   /\ inst.rotation = ZeroAngle

\* the largest Cube grid, whose last instance has a normalized axis
C19_Witness ==
    /\ grid.kind = "Cube"
    /\ grid.rows = MaxRows
    /\ Normalized(grid.instances[Len(grid.instances)])
    /\ grid.instances[Len(grid.instances)].rotation.axis.len2 > 0

----------------------------------------------------------------------------
(* The order of the calls of a redraw                                      *)

\* the operation of a call: that of the command for a call on the pass
OpOf(call) == IF call.op = "rpass" THEN call.args.op ELSE call.op

TraceOps == [i \in DOMAIN trace |-> OpOf(trace[i])]

\* the steps of a frame, in order
FrameSteps ==
    <<"get_current_texture", "create_command_encoder", "begin_render_pass",
      "set_pipeline", "set_bind_group", "set_vertex_buffer", "set_index_buffer",
      "draw_indexed", "end_render_pass", "submit", "present">>

IsFrameStep(op) == \E i \in DOMAIN FrameSteps : FrameSteps[i] = op

\* C20: a RedrawRequested whose frame is acquired performs, once each and in
\* this order: acquire the frame, create the command encoder, begin the
\* render pass, set pipeline, bind group, vertex buffer and index buffer,
\* record one indexed draw, end the render pass, submit the command buffer,
\* present the frame; no frame is presented before its command buffer is
\* submitted.
C20_RedrawOrder ==
    /\ Redrawn =>
           /\ SelectSeq(TraceOps, IsFrameStep) = FrameSteps
           /\ trace[1] = Call("get_current_texture", "Ok")
    /\ \A p \in At("present") : \E s \in At("submit") : s < p

C20_Witness ==
    /\ Redrawn
    /\ Len(trace) = 13
    /\ TraceOps[12] = "submit" /\ TraceOps[13] = "present"
    /\ ~redraw_requested

----------------------------------------------------------------------------
(* The surface configuration over the events                               *)

\* the sizes the calls of a handler configure the surface with, in order
Configures(calls_made) ==
    SelectSeq([i \in DOMAIN calls_made |->
                  IF calls_made[i].op = "configure" THEN <<calls_made[i].args>> ELSE <<>>],
              IsSome)

\* C21: after any sequence of events the width and height of the surface
\* configuration are those of the most recent Resized event, or of the
\* initial window size if there was none; the surface is reconfigured
\* exactly once per Resized event and each Resized event requests a redraw.
C21_SurfaceFollowsResized ==
    [][/\ last_event.kind = "None" =>
              /\ Configures(trace) = <<Some(config)>>
              /\ surface = config
       /\ IF last_event'.kind = "Resized"
          THEN /\ config' = last_event'.payload
               /\ surface' = last_event'.payload
               /\ Configures(trace') = <<Some(last_event'.payload)>>
               /\ \E i \in DOMAIN trace' : trace'[i].op = "request_redraw"
               /\ redraw_requested'
          ELSE /\ config' = config
               /\ surface' = surface
               /\ Configures(trace') = <<>>]_vars

\* a second Resized event was handled, with another size than the first
C21_Witness ==
    /\ last_event.kind = "Resized"
    /\ last_event.payload = PhysicalSize(1, MaxDim)
    /\ surface = PhysicalSize(1, MaxDim)
    /\ config = surface
    /\ redraw_requested
    /\ loop_flow = "Wait"

----------------------------------------------------------------------------
(* The uniform buffers after a sequence of prepare calls                    *)

\* the camera-uniform buffer of an object holds the matrix of the camera of
\* its latest prepare(queue, Some(camera), t), or of the camera of construction
CameraBufferLatest(kind) ==
    buffers[StructOf(kind).camera_buffer].contents
        = Flatten(ViewProjectionOf[LatestCamera(kind)])

\* the elapsed-time buffer of an object holds the t of its latest prepare
ElapsedBufferLatest(kind) ==
    PrepareCalls({kind}) # {} =>
        FromNeBytes(buffers[StructOf(kind).elapsed_time_buffer].contents, endian)
            = calls[SetMax(PrepareCalls({kind}))].elapsed_time

UniformsLatest ==
    \A kind \in Instanced : CameraBufferLatest(kind) /\ ElapsedBufferLatest(kind)

\* the call just made repeats the call before it: same object, same arguments
Repeated(before, after) ==
    /\ Len(before) >= 1
    /\ after[Len(after)].fn = "prepare"
    /\ before[Len(before)].fn = "prepare"
    /\ after[Len(after)].self \in Instanced
    /\ after[Len(after)].self = before[Len(before)].self
    /\ after[Len(after)].camera = before[Len(before)].camera
    /\ after[Len(after)].elapsed_time = before[Len(before)].elapsed_time

\* C22: after any sequence of prepare calls on a Pentagon or Cube the
\* camera-uniform buffer holds the view-projection matrix of the camera of the
\* most recent call that supplied Some(camera) (of the construction camera if
\* none did) and the elapsed-time buffer holds the t of the most recent call;
\* a call that repeats the previous one with the same arguments changes no
\* buffer.
C22_BuffersFollowLatestCall ==
    [][/\ UniformsLatest
       /\ UniformsLatest'
       /\ (Len(calls') = Len(calls) + 1 /\ Repeated(calls, calls'))
              => buffers' = buffers]_vars

\* a call with a camera other than that of construction, at a time other
\* than the starting one, made and then repeated
C22_Witness ==
    /\ Len(calls) = MaxCalls
    /\ Repeated(SubSeq(calls, 1, Len(calls) - 1), calls)
    /\ IsSome(calls[Len(calls)].camera)
    /\ Unwrap(calls[Len(calls)].camera) # camera0
    /\ calls[Len(calls)].elapsed_time # 0
    /\ UniformsLatest

----------------------------------------------------------------------------
(* Every buffer write against the size of its target                        *)

\* run's set-up in a window of the largest size, followed by prepare calls
InitWrites ==
    /\ InitMain
    /\ config = PhysicalSize(MaxDim, MaxDim)

SpecWrites == InitWrites /\ [][Next]_vars

\* a write_buffer of a component stays inside its target
WriteFits(w) == w.offset + w.size <= buffers[w.buffer].size

\* the size given to create_buffer for a buffer of run, as an Option
CreatedSize(calls_made, buffer) ==
    SelectSeq([i \in DOMAIN calls_made |->
                  IF calls_made[i].op = "create_buffer" /\ calls_made[i].args.buffer = buffer
                  THEN <<calls_made[i].args.size>> ELSE <<>>],
              IsSome)

\* the write_buffer calls of run
MainWrites(calls_made) ==
    {i \in DOMAIN calls_made : calls_made[i].op = "write_buffer"}

MainWriteFits(calls_made, i) ==
    LET created == CreatedSize(SubSeq(calls_made, 1, i - 1), calls_made[i].args.buffer)
    IN  /\ Len(created) = 1
        /\ calls_made[i].args.offset + calls_made[i].args.size <= Unwrap(created[1])

\* C23: every buffer write fits its target, offset + length <= buffer size:
\* the camera write is 64 bytes into a 64-byte buffer, the elapsed-time write
\* 4 bytes into a 4-byte buffer, and the vertex and index uploads of run's
\* set-up go into buffers of 4096 bytes.
C23_WritesFit ==
    /\ \A i \in DOMAIN queue :
           /\ WriteFits(queue[i])
           /\ \A kind \in Instanced :
                  /\ queue[i].buffer = StructOf(kind).camera_buffer
                         => queue[i].size = 64 /\ buffers[queue[i].buffer].size = 64
                  /\ queue[i].buffer = StructOf(kind).elapsed_time_buffer
                         => queue[i].size = 4 /\ buffers[queue[i].buffer].size = 4
    /\ MainWrites(trace) # {}
    /\ \A i \in MainWrites(trace) :
           /\ MainWriteFits(trace, i)
           /\ CreatedSize(trace, trace[i].args.buffer) = <<Some(4096)>>

\* both uploads of the set-up made, and a camera and an elapsed-time write
\* queued for each of Pentagon and Cube
C23_Witness ==
    /\ Cardinality(MainWrites(trace)) = 2
    /\ \A kind \in Instanced :
           /\ \E i \in DOMAIN queue : queue[i].buffer = StructOf(kind).camera_buffer
           /\ \E i \in DOMAIN queue : queue[i].buffer = StructOf(kind).elapsed_time_buffer

----------------------------------------------------------------------------
(* The slices uploaded by run's set-up                                      *)

\* the uploads of the set-up to the index buffer
IndexUploads ==
    {i \in MainWrites(trace) : trace[i].args.buffer = <<"main", "index_buffer">>}

\* C24: the byte slice uploaded to the index buffer at startup covers exactly
\* the index data: its length is the number of indices times the size of one
\* index, 9 x 4 = 36 bytes, and no byte outside the index vector is read.
C24_IndexSliceExact ==
    last_event.kind = "None" =>
        /\ IndexUploads # {}
        /\ \A i \in IndexUploads :
               /\ trace[i].args.size = Len(indices) * size_of_i32
               /\ trace[i].args.size = 36
               /\ trace[i].args.size <= trace[i].args.source

----------------------------------------------------------------------------
(* Index counts and index values of the meshes                              *)

\* a mesh of a component draws as many indices as its index buffer was
\* created from, and each of them names one of its vertices
MeshInBounds(mesh) ==
    LET uploaded == buffers[mesh.index_buffer].contents
        vertices == buffers[mesh.vertex_buffer].contents
    IN  /\ mesh.num_elements = Len(uploaded)
        /\ \A i \in DOMAIN uploaded : uploaded[i] >= 0 /\ uploaded[i] < Len(vertices)

ComponentMeshesInBounds ==
    /\ \A i \in DOMAIN pentagon.model.meshes : MeshInBounds(pentagon.model.meshes[i])
    /\ \A i \in DOMAIN char.model.meshes : MeshInBounds(char.model.meshes[i])

\* the number of elements of elem bytes uploaded to a buffer of run
Uploaded(buffer, elem) ==
    LET ws == {i \in MainWrites(trace) : trace[i].args.buffer = buffer}
    IN  IF ws = {} THEN 0 ELSE trace[SetMax(ws)].args.size \div elem

\* the index ranges of the draws of run's pass
MainDrawCounts ==
    {MainPassCommands[i].args.indices[2] - MainPassCommands[i].args.indices[1] :
        i \in {j \in DOMAIN MainPassCommands : MainPassCommands[j].op = "draw_indexed"}}

\* C25: for every mesh the program builds (Pentagon's mesh, Char's quad and
\* the pentagon of main) the index count of the draw call equals the number
\* of indices uploaded to the index buffer, and every index is smaller than
\* the number of vertices of the mesh.
C25_MeshIndexCounts ==
    /\ ComponentMeshesInBounds
    /\ last_event.kind = "None" =>
           /\ MainDrawCounts = {Uploaded(<<"main", "index_buffer">>, size_of_i32)}
           /\ \A i \in DOMAIN indices :
                  indices[i] < Uploaded(<<"main", "vertex_buffer">>, size_of_Vertex)

----------------------------------------------------------------------------
(* The instance list, the instance buffer and the instance counts           *)

\* the instance buffer holds one 64-byte matrix per instance, in order
InstanceBufferMatches(self) ==
    LET b == buffers[self.instance_buffer]
    IN  /\ b.size = 64 * Len(self.instances)
        /\ Len(b.contents) = Len(self.instances)
        /\ \A i \in DOMAIN b.contents : b.contents[i] = to_raw(self.instances[i])

\* the instance ranges of the draws recorded in the current pass under the
\* pipeline of an object
InstanceRangesDrawn(kind) ==
    {rpass.commands[d].args.instances :
        d \in {k \in DOMAIN rpass.commands :
                  /\ rpass.commands[k].op = "draw_indexed"
                  /\ BoundAt(k, "set_pipeline", 0) = Some(StructOf(kind).render_pipeline)}}

\* C26: in every reachable state of a Pentagon or Cube, after any sequence of
\* prepare and render calls, the instance list has exactly 100 entries, the
\* instance buffer holds exactly one 64-byte model matrix per entry, and the
\* instance count of every draw call equals that length.
C26_HundredInstances ==
    \A kind \in Instanced :
        /\ Len(StructOf(kind).instances) = 100
        /\ InstanceBufferMatches(StructOf(kind))
        /\ InstanceRangesDrawn(kind) \subseteq {<<0, Len(StructOf(kind).instances)>>}

\* the Cube prepared with a camera, then both objects drawn in one pass
C26_Witness ==
    /\ CameraCalls("Cube") # {}
    /\ \A kind \in Instanced : InstanceRangesDrawn(kind) = {<<0, 100>>}

----------------------------------------------------------------------------
(* The sizes the surface is configured with                                 *)

\* C27: the surface is never configured with a width or a height of zero,
\* whatever sizes the Resized events carry, the size reported for a minimized
\* window included.
C27_NoZeroSizeConfigure ==
    last_event.kind = "Resized" =>
        \A i \in DOMAIN trace :
            trace[i].op = "configure" =>
                trace[i].args.width > 0 /\ trace[i].args.height > 0

----------------------------------------------------------------------------
(* Char::prepare                                                            *)

\* the step is a call of prepare on the Char
CharPrepared(before, after) ==
    /\ Len(after) = Len(before) + 1
    /\ after[Len(after)].fn = "prepare"
    /\ after[Len(after)].self = "Char"

\* C28: Char.prepare queues no buffer write and leaves the Char unchanged, for
\* every camera argument (None or Some) and every elapsed time; in particular
\* it writes no elapsed-time value.
C28_CharPrepareNoEffect ==
    [][CharPrepared(calls, calls') =>
           /\ queue' = queue
           /\ buffers' = buffers
           /\ char' = char
           /\ CallWrites(calls'[Len(calls')]) = <<>>]_vars

\* the Char prepared without a camera and then with one, at a later time
C28_Witness ==
    /\ Len(calls) = 2
    /\ \A i \in DOMAIN calls : calls[i].fn = "prepare" /\ calls[i].self = "Char"
    /\ calls[1].camera = None
    /\ IsSome(calls[2].camera)
    /\ calls[2].elapsed_time # calls[1].elapsed_time
    /\ queue = <<>>

----------------------------------------------------------------------------
(* next_copy_buffer_size, applied to sizes over the whole range of u64      *)

MaxSize == 70

\* every size up to MaxSize, the size run asks for and its successor, and the
\* sizes around the largest power of two of u64
Sizes ==
    {ToBits(n) : n \in 0..MaxSize}
    \cup {ToBits(4096), ToBits(4097)}
    \cup {OneHot(u64_BITS),
          [i \in Bits |-> IF i = u64_BITS THEN 0 ELSE 1],
          [i \in Bits |-> IF i \in {1, u64_BITS} THEN 1 ELSE 0],
          [i \in Bits |-> 1]}

\* one call of the function on one size
NextCopyBufferSize ==
    \E size \in Sizes, overflow_checks \in BOOLEAN :
        /\ sized = None
        /\ sized' = Some([size |-> size,
                          overflow_checks |-> overflow_checks,
                          result |-> next_copy_buffer_size(size, overflow_checks)])
        /\ UNCHANGED <<objVars, grid, mainVars>>

NextSize == NextCopyBufferSize

SpecSize == Init /\ [][NextSize]_vars

\* the powers of two of u64 that are at least s, by the position of their bit
PowersAtLeast(s) == {i \in Bits : ~BitsLess(OneHot(i), s)}

\* the smallest power of two that is at least s, when one fits in 64 bits
SmallestPowerAtLeast(s) ==
    OneHot(CHOOSE i \in PowersAtLeast(s) : \A j \in PowersAtLeast(s) : i <= j)

\* C30: for every size s whose next power of two fits in 64 bits,
\* next_copy_buffer_size(s) returns max(4, smallest power of two that is at
\* least s): a multiple of COPY_BUFFER_ALIGNMENT (4), at least s and at least
\* 4; 0, 1, 2 and 3 map to 4 and 4096 maps to 4096.
C30_NextCopyBufferSize ==
    (IsSome(sized) /\ PowersAtLeast(Unwrap(sized).size) # {}) =>
        LET s == Unwrap(sized).size
            r == Unwrap(sized).result.value
        IN  /\ ~Unwrap(sized).result.panicked
            /\ r = BitsMax(ToBits(4), SmallestPowerAtLeast(s))
            /\ r[1] = 0 /\ r[2] = 0
            /\ ~BitsLess(r, s)
            /\ ~BitsLess(r, ToBits(4))
            /\ s \in {ToBits(0), ToBits(1), ToBits(2), ToBits(3)} => r = ToBits(4)
            /\ s = ToBits(4096) => r = ToBits(4096)

\* the function applied to 2^63, the largest size whose next power of two
\* fits, with the overflow checks of a debug build
C30_Witness ==
    /\ IsSome(sized)
    /\ Unwrap(sized).size = OneHot(u64_BITS)
    /\ Unwrap(sized).overflow_checks
    /\ Unwrap(sized).result = [panicked |-> FALSE, value |-> OneHot(u64_BITS)]

----------------------------------------------------------------------------
(* Progress of the frames                                                   *)

\* the delivery of the RedrawRequested that request_redraw asked for
DeliverRedraw == redraw_requested /\ OnRedrawRequested

\* run's set-up; the components, which the loop never touches, in one state
InitLoop ==
    /\ InitMain
    /\ endian = "little"
    /\ camera0 = MkCamera(<<0, 0, 2>>, <<0, 0, 0>>)
    /\ Len(cube.model.meshes) = 1

\* The event loop emits MainEventsCleared in every iteration, and emits a
\* RedrawRequested after it whenever a redraw was requested.
SpecMainFair ==
    /\ InitLoop
    /\ [][NextMain]_vars
    /\ WF_vars(OnMainEventsCleared)
    /\ WF_vars(DeliverRedraw)

\* the handler has just submitted and presented a frame
FramePresented ==
    /\ last_event.kind = "RedrawRequested"
    /\ \E i, j \in DOMAIN trace :
           i < j /\ trace[i].op = "submit" /\ trace[j].op = "present"

====
